---- MODULE Spec2Model ----
(***************************************************************************)
(* Process orchestration and fallback chain of the SQLite recovery server  *)
(* (src/unnamed/part_002).  One recovery request is followed from its      *)
(* submission to its response.  The request handler (hpc) awaits the       *)
(* promise of executeRecovery / tryTableByTableRecovery (result); the      *)
(* chain (cpc) runs as a sequence of child-process event handlers.  Each   *)
(* action is one handler of the source: a 'close' / 'error' event of the   *)
(* awaited child, a timer callback, or the resumption after an await.      *)
(*                                                                         *)
(* The environment decides, at spawn, how the external sqlite3 process     *)
(* behaves (st): "running" exits by itself, "hung" never exits by itself,  *)
(* "failing" could not be spawned ('error' event pending).  After 'error'  *)
(* the runtime also emits 'close' with a negative code ("errclose"); a     *)
(* process killed from outside emits 'close' with a null code ("killed").  *)
(* A write to the output file may fail (the source catches it).            *)
(***************************************************************************)
EXTENDS Integers, Sequences, FiniteSets, TLC

\* Largest number of user tables the enumeration query returns.
MaxTables == 2
\* Size of the recovered script, in units of the read stream.
ScriptSize == 6

VARIABLES
    endpoint,       \* "none" | "recover" | "manual"
    hpc,            \* position of the request handler
    cpc,            \* position of the strategy chain
    result,         \* promise awaited by the handler (first resolve wins)
    child,          \* the child process whose events the chain / handler awaits
    orphans,        \* live sqlite3 processes nobody awaits any more
    spawnLog,       \* every spawn('sqlite3', ...) of the session, in order
    tables,         \* rows of the table enumeration query
    idx,            \* loop variable i of tryTableByTableRecovery
    successCount,   \* successCount of tryTableByTableRecovery
    failedTables,   \* failedTables of tryTableByTableRecovery
    outFile,        \* content of the output SQL file (sequence of sections)
    stratResult,    \* the StrategyResult each strategy returned (Pending: none)
    response,       \* what the handler passed to res.json
    progressLog,    \* every sendProgress call of the session, in order
    forceStopped,   \* /api/force-stop was requested during the session
    ceilingElapsed, \* the req/res timeout of the session has elapsed
    writeFailed,    \* a write of tryTableByTableRecovery was rejected
    okDumps,        \* table dumps that exited 0 with output before their timeout
    dbCreation      \* createDatabaseFromSql: the file at dbPath, how sqlite3 ended

\* State of one run of tryDumpCommand, the streaming dump with its watchdog
\* timers (specification SpecDump).  Times are in seconds since the spawn.
VARIABLES
    now,            \* wall clock
    profile,        \* how the external process behaves (chosen at spawn)
    sqlite3,        \* the child: its state, its killed flag, signals sent
    nextData,       \* when a trickling process emits its next byte
    bytesWritten,   \* bytesWritten
    processComplete,            \* processComplete
    lastSignificantProgress,    \* lastSignificantProgress (heartbeat)
    bytesAtLastCheck,           \* bytesAtLastCheck (heartbeat)
    lastSignificantSize,        \* lastSignificantSize ('data' handler)
    timeAtLastSignificantSize,  \* timeAtLastSignificantSize ('data' handler)
    lastProgressUpdate,  \* lastProgressUpdate: the last sendProgress of the dump
    timers,         \* due times of the armed timers (Off: not armed)
    outputStream,   \* the write stream of the output file
    dumpResult      \* the promise of tryDumpCommand

sessionVars ==
    <<endpoint, hpc, cpc, result, child, orphans, spawnLog, tables, idx,
      successCount, failedTables, outFile, stratResult, response,
      progressLog, forceStopped, ceilingElapsed, writeFailed, okDumps,
      dbCreation>>

dumpVars ==
    <<now, profile, sqlite3, nextData, bytesWritten, processComplete,
      lastSignificantProgress, bytesAtLastCheck, lastSignificantSize,
      timeAtLastSignificantSize, lastProgressUpdate, timers, outputStream,
      dumpResult>>

\* State of the progress channel (specification SpecChannel).
VARIABLES
    progressStore,  \* progressStore: per session, whether the Map has the key
                    \* and the array of client connections stored under it
    conns,          \* every connection to /api/progress/:sessionId
    pubLog          \* every sendProgress call, in order

channelVars == <<progressStore, conns, pubLog>>

\* State of the upload intake of one request (specification SpecIntake).
VARIABLES
    upload,         \* req.file: "none" before the request, "missing", "plain"
                    \* or "zip" by the extension of the original name
    archive,        \* zipEntries of an uploaded archive, in archive order
    readable,       \* whether adm-zip can read the uploaded archive
    sqliteEntry,    \* the entry extractSqliteFromZip selected, 0 for null
    ipc,            \* where the handler stands
    disk,           \* which input files of the request exist in uploads/
    inputPath,      \* the handler's inputPath
    started,        \* executeRecovery / tryTableByTableRecovery was called
    reply           \* the HTTP status answered, 0 while unanswered

intakeVars ==
    <<upload, archive, readable, sqliteEntry, ipc, disk, inputPath, started,
      reply>>

\* State of the artifact download (specification SpecDownload).
VARIABLES
    dl,             \* every request to /api/download/:filename
    files,          \* the regular files that exist, by resolved path
    unlinkTimers,   \* the requests whose 5 s cleanup timer is armed
    crashed,        \* an 'error' event without a listener ended the process
    touched         \* the resolved paths given to fs.access / createReadStream

downloadVars == <<dl, files, unlinkTimers, crashed, touched>>

\* State of the status probe (specification SpecStatus).
VARIABLES
    wallClock,      \* Date.now(), in seconds
    uploadsDir,     \* mtime of every file in uploads/, Absent if none
    recovering,     \* the output files a recovery in flight is writing
    statusReply     \* the last answer of /api/status

statusVars == <<wallClock, uploadsDir, recovering, statusReply>>

\* State of the uploads directory shared by the sessions (specification
\* SpecCleanup).
VARIABLES
    period,         \* the time, in periods of five minutes
    store,          \* the files in uploads/: path and mtime
    fsess           \* per session: state, timestamp and the files it uses

cleanupVars == <<period, store, fsess>>

\* State of getRecoveryStats (specification SpecStats).
VARIABLES
    rowCounts,      \* the rows of every enumerated table of the new database
    statIdx,        \* position of the loop over the tables, 0 before it
    totalRows,      \* totalRows
    countIssued,    \* the tables a count query was issued for
    countOk,        \* the tables whose count query gave a result
    recordsRecovered \* the returned recordsRecovered, Absent before

statsVars ==
    <<rowCounts, statIdx, totalRows, countIssued, countOk, recordsRecovered>>

\* State of the database phase's progress (specification SpecImport).
VARIABLES
    impEndpoint,    \* the endpoint whose handler runs, "none" before
    impState,       \* "idle" | "running" | "closed"
    bytesRead,      \* bytesRead of createDatabaseFromSql, in read units
    totalSize,      \* totalSize: the script's size, 0 when fs.stat failed
    sent            \* the progress values published since the phase began

importVars == <<impEndpoint, impState, bytesRead, totalSize, sent>>

\* the variables of the specifications that model one part of the server each
auxVars ==
    <<intakeVars, downloadVars, statusVars, cleanupVars, statsVars,
      importVars>>

\* what a step of a recovery session leaves alone
otherVars == <<dumpVars, channelVars, auxVars>>

vars == <<sessionVars, otherVars>>

-----------------------------------------------------------------------------
\* Data

Strategies == {"primary", "dump", "table", "schema", "basic"}

\* Table lists the enumeration query can return: n distinct names, in
\* ascending or in descending order of name.
TableLists ==
    UNION {{[i \in 1..n |-> i], [i \in 1..n |-> n + 1 - i]} : n \in 0..MaxTables}

NoChild == [cmd |-> "none", st |-> "none"]

\* How a freshly spawned process will behave.
SpawnBehaviours == {"running", "hung", "failing"}

Alive == {"running", "hung"}

Pending ==
    [state |-> "pending", success |-> FALSE, error |-> "",
     tablesRecovered |-> -1, tablesFailed |-> -1]

Ret(s, e, rec, failed) ==
    [state |-> "resolved", success |-> s, error |-> e,
     tablesRecovered |-> rec, tablesFailed |-> failed]

Ok == Ret(TRUE, "", -1, -1)

Fail(e) == Ret(FALSE, e, -1, -1)

\* resolve(r) of a promise: only the first call settles it.
Resolve(res, r) == IF res.state = "pending" THEN r ELSE res

Section(k, t, x, c) == [kind |-> k, table |-> t, text |-> x, count |-> c]

NoResponse ==
    [status |-> 0, fields |-> {}, tablesRecovered |-> -1, totalTables |-> -1,
     error |-> "", delivered |-> FALSE]

Event(ph, p) == [phase |-> ph, progress |-> p]

\* Math.round(num / den) for num >= 0, den > 0.
Round(num, den) == (2 * num + den) \div (2 * den)
\* Math.min
Min(a, b) == IF a < b THEN a ELSE b

\* Largest number of connections to the progress endpoint.
MaxConns == 2

\* Largest number of sendProgress calls.
MaxEvents == 2

Sessions == {"s1", "s2"}

Conns == 1..MaxConns

\* no request was received
IntakeIdle ==
    /\ upload = "none"
    /\ archive = <<>>
    /\ readable = TRUE
    /\ sqliteEntry = 0
    /\ ipc = "idle"
    /\ disk = {}
    /\ inputPath = "none"
    /\ started = FALSE
    /\ reply = 0

Requests == {"r1", "r2"}

\* path segments as sequences of tokens, so that a path string is the
\* sequence of its tokens and startsWith is the prefix relation on it
app == <<"app">>

uploads == <<"uploads">>

uploads_backup == <<"uploads", "_backup">>

artifact == <<"a.sql">>

dotdot == <<"..">>

\* an artifact in uploads/, and a file in a sibling directory whose name
\* starts with the name of the uploads directory
DownloadIdle ==
    /\ dl = [r \in Requests |->
                [st |-> "new", name |-> <<>>, target |-> <<>>, status |-> 0]]
    /\ files = {<<app, uploads, artifact>>, <<app, uploads_backup, artifact>>}
    /\ unlinkTimers = {}
    /\ crashed = FALSE
    /\ touched = {}

Absent == -1

\* the files a recovery leaves in uploads/, by prefix and extension
OutputNames ==
    {[prefix |-> "recovery_", ext |-> ".sql"],
     [prefix |-> "manual_recovery_", ext |-> ".sql"],
     [prefix |-> "recovered_", ext |-> ".db"]}

NoStatus ==
    [status |-> 0, isActive |-> FALSE, isStuck |-> FALSE,
     idleSeconds |-> Absent, inFlight |-> FALSE]

\* empty uploads directory, no recovery in flight, no probe made
StatusIdle ==
    /\ wallClock = 0
    /\ uploadsDir = [f \in OutputNames |-> Absent]
    /\ recovering = {}
    /\ statusReply = NoStatus

\* empty uploads directory, no session
CleanupIdle ==
    /\ period = 0
    /\ store = {}
    /\ fsess = [s \in Sessions |->
                   [st |-> "idle", endpoint |-> "", timestamp |-> <<>>,
                    baseName |-> "", held |-> {}]]

\* getRecoveryStats was not called
StatsIdle ==
    /\ rowCounts = <<>>
    /\ statIdx = 0
    /\ totalRows = 0
    /\ countIssued = {}
    /\ countOk = {}
    /\ recordsRecovered = Absent

\* no handler has reached the database phase
ImportIdle ==
    /\ impEndpoint = "none"
    /\ impState = "idle"
    /\ bytesRead = 0
    /\ totalSize = 0
    /\ sent = <<>>

AuxIdle ==
    /\ IntakeIdle /\ DownloadIdle /\ StatusIdle /\ CleanupIdle /\ StatsIdle
    /\ ImportIdle

\* no connection was made, nothing was published
ChannelIdle ==
    /\ progressStore = [s \in Sessions |-> [has |-> FALSE, clients |-> <<>>]]
    /\ conns = [c \in Conns |->
                    [st |-> "new", session |-> "", stream |-> <<>>,
                     subAt |-> 0, closeAt |-> 0]]
    /\ pubLog = <<>>

\* a timer that is not armed
Off == -1

NoDumpResult ==
    [state |-> "pending", success |-> FALSE, error |-> "", timeout |-> FALSE,
     partialData |-> FALSE, fields |-> {}, at |-> Off]

\* tryDumpCommand has not been called
DumpIdle ==
    /\ now = 0
    /\ profile = [kind |-> "none", ignoresTerm |-> FALSE]
    /\ sqlite3 = [st |-> "none", code |-> 0, killed |-> FALSE,
                  signals |-> <<>>]
    /\ nextData = Off
    /\ bytesWritten = 0
    /\ processComplete = FALSE
    /\ lastSignificantProgress = 0
    /\ bytesAtLastCheck = 0
    /\ lastSignificantSize = 0
    /\ timeAtLastSignificantSize = 0
    /\ lastProgressUpdate = 0
    /\ timers = [zero |-> Off, watchdog |-> Off, heartbeat |-> Off,
                 escalate |-> Off]
    /\ outputStream = [st |-> "none", waiting |-> FALSE]
    /\ dumpResult = NoDumpResult

\* no request has been submitted
SessionIdle ==
    /\ endpoint = "none"
    /\ hpc = "idle"
    /\ cpc = "none"
    /\ result = Pending
    /\ child = NoChild
    /\ orphans = 0
    /\ spawnLog = <<>>
    /\ tables = <<>>
    /\ idx = 0
    /\ successCount = 0
    /\ failedTables = <<>>
    /\ outFile = <<>>
    /\ stratResult = [s \in Strategies |-> Pending]
    /\ response = NoResponse
    /\ progressLog = <<>>
    /\ forceStopped = FALSE
    /\ ceilingElapsed = FALSE
    /\ writeFailed = FALSE
    /\ okDumps = 0
    /\ dbCreation = [file |-> "absent", exit |-> "none"]

Init == SessionIdle /\ DumpIdle /\ ChannelIdle /\ AuxIdle

-----------------------------------------------------------------------------
\* Helpers shared by the handlers

Spawn(cmd, b) == [cmd |-> cmd, st |-> b]

\* progress = 35 + Math.round((i / tables.length) * 30)
TableProgress(i, n) == 35 + Round(i * 30, n)

\* Variant: the loop is left at the first table that fails.
LoopStopsAtFailure(i, n, tr) == i < n /\ tr.success

\* Variant: the placeholder comment of a failed table carries no reason.
TableEntryOmitsReason(name, tr) ==
    IF tr.success
    THEN Section("table", name, "", 0)
    ELSE Section("failed", name, "", 0)

\* Variant: the return statement reports success whatever was recovered.
TbtResultAlwaysSuccess(sc, nf) == Ret(TRUE, "", sc, nf)

\* result of dumpSingleTable's 'close' handler
DumpResult(code, out, err) ==
    IF code = 0 /\ out
    THEN [success |-> TRUE, error |-> ""]
    ELSE [success |-> FALSE, error |-> IF err THEN "stderr" ELSE "dump failed"]

\* what tryTableByTableRecovery writes for one table
TableEntry(name, tr) ==
    IF tr.success
    THEN Section("table", name, "", 0)
    ELSE Section("failed", name, tr.error, 0)

\* the return statement that ends tryTableByTableRecovery's loop
TbtResult(sc, nf) ==
    IF sc > 0
    THEN Ret(TRUE, "", sc, nf)
    ELSE Fail("All tables failed to recover")

\* the loop condition i < tables.length, evaluated after table i was handled
LoopContinues(i, n, tr) == i < n

\* Variant: the chain goes on to the schema extraction whatever the
\* table-by-table result was.
AfterTableIgnoresSuccess(ret) == "schema"

\* tryAlternativeRecovery after the table-by-table result
AfterTable(ret) == IF ret.success THEN "return" ELSE "schema"

\* tryAlternativeRecovery after the schema result
AfterSchema(ret) == IF ret.success THEN "return" ELSE "basic"

\* Variant: the write replaces the file's content.
writeFile(file, data) == <<data>>

\* fs.appendFile: the data goes after the content the file already has
appendFile(file, data) == Append(file, data)

\* Variant: an exit with status 0 and no output counts as a failure.
AfterPrimaryNeedsOutput(code, out) ==
    IF code = 0 /\ out THEN "write" ELSE "alternative"

\* executeRecovery's 'close' handler of the primary process
AfterPrimary(code, out) == IF code = 0 THEN "write" ELSE "alternative"

\* Variant: the alternatives start with the schema extraction.
FirstFallbackSkipsTables == "schema"

\* first fallback of tryAlternativeRecovery: the command it spawns first
FirstFallback == "query"

\* sendProgress(30) and the first spawn of tryAlternativeRecovery
StartAlternative(b) ==
    /\ progressLog' = Append(progressLog, Event("recovery", 30))
    /\ cpc' = FirstFallback
    /\ child' = Spawn(FirstFallback, b)
    /\ spawnLog' = Append(spawnLog, FirstFallback)

\* tryTableByTableRecovery returns ret; its caller goes on
TbtFinish(ret, b) ==
    /\ stratResult' = [stratResult EXCEPT !["table"] = ret]
    /\ IF endpoint = "manual" \/ AfterTable(ret) = "return"
       THEN /\ result' = Resolve(result, ret)
            /\ cpc' = "done"
            /\ child' = NoChild
            /\ spawnLog' = spawnLog
       ELSE /\ result' = result
            /\ cpc' = "schema"
            /\ child' = Spawn("schema", b)
            /\ spawnLog' = Append(spawnLog, "schema")

-----------------------------------------------------------------------------
\* Request submission

Submit(ep, b) ==
    /\ hpc = "idle"
    /\ endpoint' = ep
    /\ hpc' = "recovery"
    /\ IF ep = "recover"
       THEN /\ progressLog' = <<Event("upload", 10), Event("recovery", 25)>>
            /\ cpc' = "version"
            /\ child' = Spawn("version", b)
            /\ spawnLog' = <<"version">>
       ELSE /\ progressLog' = <<Event("recovery", 15)>>
            /\ cpc' = "query"
            /\ child' = Spawn("query", b)
            /\ spawnLog' = <<"query">>
    /\ UNCHANGED <<result, orphans, tables, idx, successCount, failedTables,
                   outFile, stratResult, response, forceStopped,
                   ceilingElapsed, writeFailed, okDumps>>
    /\ UNCHANGED dbCreation
    /\ UNCHANGED otherVars

-----------------------------------------------------------------------------
\* executeRecovery: capability probe and primary .recover

VersionFailed(e) ==
    /\ result' = Resolve(result, Fail(e))
    /\ cpc' = "done"
    /\ child' = NoChild
    /\ UNCHANGED <<spawnLog, progressLog>>

VersionClose(ok, b) ==
    /\ cpc = "version" /\ child.cmd = "version"
    /\ child.st \in {"running", "killed"}
    /\ ok => child.st = "running"
    /\ IF ok
       THEN /\ cpc' = "help"
            /\ child' = Spawn("help", b)
            /\ spawnLog' = Append(spawnLog, "help")
            /\ UNCHANGED <<result, progressLog>>
       ELSE VersionFailed("SQLite3 is not available: not accessible")
    /\ UNCHANGED <<endpoint, hpc, orphans, tables, idx, successCount,
                   failedTables, outFile, stratResult, response, forceStopped,
                   ceilingElapsed, writeFailed, okDumps>>
    /\ UNCHANGED dbCreation
    /\ UNCHANGED otherVars

VersionError ==
    /\ cpc = "version" /\ child.cmd = "version" /\ child.st = "failing"
    /\ VersionFailed("SQLite3 is not available: not found")
    /\ UNCHANGED <<endpoint, hpc, orphans, tables, idx, successCount,
                   failedTables, outFile, stratResult, response, forceStopped,
                   ceilingElapsed, writeFailed, okDumps>>
    /\ UNCHANGED dbCreation
    /\ UNCHANGED otherVars

\* executeRecovery after checkSqliteVersion resolved with success
ProbeDone(hasRecover, b) ==
    /\ IF hasRecover
       THEN /\ cpc' = "primary"
            /\ child' = Spawn("primary", b)
            /\ spawnLog' = Append(spawnLog, "primary")
            /\ UNCHANGED progressLog
       ELSE StartAlternative(b)
    /\ UNCHANGED <<endpoint, hpc, result, orphans, tables, idx, successCount,
                   failedTables, outFile, stratResult, response, forceStopped,
                   ceilingElapsed, writeFailed, okDumps>>

HelpClose(hasRecover, b) ==
    /\ cpc = "help" /\ child.cmd = "help"
    /\ child.st \in {"running", "killed"}
    /\ ProbeDone(hasRecover, b)
    /\ UNCHANGED dbCreation
    /\ UNCHANGED otherVars

HelpError(b) ==
    /\ cpc = "help" /\ child.cmd = "help" /\ child.st = "failing"
    /\ ProbeDone(FALSE, b)
    /\ UNCHANGED dbCreation
    /\ UNCHANGED otherVars

PrimaryClose(code, out, wf, b) ==
    /\ cpc = "primary" /\ child.cmd = "primary"
    /\ child.st \in {"running", "killed", "errclose"}
    /\ child.st # "running" => (code # 0 /\ ~out)
    /\ IF AfterPrimary(code, out) = "write"
       THEN /\ cpc' = "done"
            /\ child' = NoChild
            /\ UNCHANGED <<spawnLog, progressLog>>
            /\ IF wf
               THEN /\ result' = Resolve(result,
                                   Fail("Failed to write recovery file"))
                    /\ stratResult' =
                           [stratResult EXCEPT
                               !["primary"] =
                                   Fail("Failed to write recovery file")]
                    /\ UNCHANGED outFile
               ELSE /\ result' = Resolve(result, Ok)
                    /\ stratResult' = [stratResult EXCEPT !["primary"] = Ok]
                    /\ outFile' = <<Section(IF out THEN "recover" ELSE "nodata",
                                            0, "", 0)>>
       ELSE /\ StartAlternative(b)
            /\ stratResult' =
                   [stratResult EXCEPT
                       !["primary"] =
                           Resolve(@, Fail(IF code = 0 THEN "exit status 0"
                                           ELSE "exit status"))]
            /\ UNCHANGED <<result, outFile>>
    /\ UNCHANGED <<endpoint, hpc, orphans, tables, idx, successCount,
                   failedTables, response, forceStopped, ceilingElapsed,
                   writeFailed, okDumps>>
    /\ UNCHANGED dbCreation
    /\ UNCHANGED otherVars

PrimaryError ==
    /\ cpc = "primary" /\ child.cmd = "primary" /\ child.st = "failing"
    /\ result' = Resolve(result, Fail("Failed to execute sqlite3"))
    /\ stratResult' =
           [stratResult EXCEPT !["primary"] = Fail("Failed to execute sqlite3")]
    /\ child' = [child EXCEPT !.st = "errclose"]
    /\ UNCHANGED <<endpoint, hpc, cpc, orphans, spawnLog, tables, idx,
                   successCount, failedTables, outFile, response, progressLog,
                   forceStopped, ceilingElapsed, writeFailed, okDumps>>
    /\ UNCHANGED dbCreation
    /\ UNCHANGED otherVars

-----------------------------------------------------------------------------
\* tryTableByTableRecovery

QueryFailed(b) ==
    /\ TbtFinish(Fail("No tables found"), b)
    /\ UNCHANGED <<tables, idx, successCount, failedTables, outFile,
                   progressLog, writeFailed>>

\* 'close' of the enumeration query; rows = <<>> stands for null and []
QueryClose(rows, wf, b) ==
    /\ cpc = "query" /\ child.cmd = "query"
    /\ child.st \in {"running", "killed"}
    /\ child.st = "killed" => rows = <<>>
    /\ IF rows = <<>>
       THEN QueryFailed(b)
       ELSE /\ tables' = rows
            /\ IF wf
               THEN /\ writeFailed' = TRUE
                    /\ TbtFinish(Fail("write error"), b)
                    /\ UNCHANGED <<idx, successCount, failedTables, outFile,
                                   progressLog>>
               ELSE /\ outFile' = <<Section("header", 0, "", 0)>>
                    /\ idx' = 0
                    /\ successCount' = 0
                    /\ failedTables' = <<>>
                    /\ progressLog' =
                           Append(progressLog,
                                  Event("recovery",
                                        TableProgress(0, Len(rows))))
                    /\ cpc' = "dump"
                    /\ child' = Spawn("dump", b)
                    /\ spawnLog' = Append(spawnLog, "dump")
                    /\ UNCHANGED <<result, stratResult, writeFailed>>
    /\ UNCHANGED <<endpoint, hpc, orphans, response, forceStopped,
                   ceilingElapsed, okDumps>>
    /\ UNCHANGED dbCreation
    /\ UNCHANGED otherVars

QueryError(b) ==
    /\ cpc = "query" /\ child.cmd = "query" /\ child.st = "failing"
    /\ QueryFailed(b)
    /\ UNCHANGED <<endpoint, hpc, orphans, response, forceStopped,
                   ceilingElapsed, okDumps>>
    /\ UNCHANGED dbCreation
    /\ UNCHANGED otherVars

\* Body of the loop after dumpSingleTable resolved with tr, the loop step,
\* and what follows the loop.  wfT: the append of the table's section is
\* rejected; wfF: the append of the footer is rejected.
TableDone(tr, wfT, wfF, b) ==
    LET name == tables[idx + 1]
        n == Len(tables)
        sc == IF tr.success THEN successCount + 1 ELSE successCount
        ft == IF tr.success THEN failedTables ELSE Append(failedTables, name)
        written == appendFile(outFile, TableEntry(name, tr))
    IN  IF wfT
        THEN /\ writeFailed' = TRUE
             /\ failedTables' = ft
             /\ TbtFinish(Fail("write error"), b)
             /\ UNCHANGED <<idx, successCount, outFile, progressLog>>
        ELSE /\ idx' = idx + 1
             /\ successCount' = sc
             /\ failedTables' = ft
             /\ IF LoopContinues(idx + 1, n, tr)
                THEN /\ outFile' = written
                     /\ progressLog' =
                            Append(progressLog,
                                   Event("recovery", TableProgress(idx + 1, n)))
                     /\ child' = Spawn("dump", b)
                     /\ spawnLog' = Append(spawnLog, "dump")
                     /\ UNCHANGED <<cpc, result, stratResult, writeFailed>>
                ELSE /\ UNCHANGED progressLog
                     /\ IF wfF
                        THEN /\ writeFailed' = TRUE
                             /\ outFile' = written
                             /\ TbtFinish(Fail("write error"), b)
                        ELSE /\ outFile' =
                                    appendFile(written,
                                               Section("footer", 0, "", sc))
                             /\ TbtFinish(TbtResult(sc, Len(ft)), b)
                             /\ UNCHANGED writeFailed

DumpClose(code, out, err, wfT, wfF, b) ==
    /\ cpc = "dump" /\ child.cmd = "dump"
    /\ child.st \in {"running", "killed"}
    /\ child.st = "killed" => code # 0
    /\ okDumps' = IF code = 0 /\ out THEN okDumps + 1 ELSE okDumps
    /\ TableDone(DumpResult(code, out, err), wfT, wfF, b)
    /\ UNCHANGED <<endpoint, hpc, orphans, tables, response, forceStopped,
                   ceilingElapsed>>
    /\ UNCHANGED dbCreation
    /\ UNCHANGED otherVars

DumpError(wfT, wfF, b) ==
    /\ cpc = "dump" /\ child.cmd = "dump" /\ child.st = "failing"
    /\ TableDone([success |-> FALSE, error |-> "spawn error"], wfT, wfF, b)
    /\ UNCHANGED <<endpoint, hpc, orphans, tables, response, forceStopped,
                   ceilingElapsed, okDumps>>
    /\ UNCHANGED dbCreation
    /\ UNCHANGED otherVars

\* the 30 s timer of dumpSingleTable: SIGTERM, which the process may ignore
DumpTimeout(termWorks, wfT, wfF, b) ==
    /\ cpc = "dump" /\ child.cmd = "dump" /\ child.st = "hung"
    /\ orphans' = IF termWorks THEN orphans ELSE orphans + 1
    /\ TableDone([success |-> FALSE, error |-> "timeout"], wfT, wfF, b)
    /\ UNCHANGED <<endpoint, hpc, tables, response, forceStopped,
                   ceilingElapsed, okDumps>>
    /\ UNCHANGED dbCreation
    /\ UNCHANGED otherVars

-----------------------------------------------------------------------------
\* trySchemaExtraction and tryBasicExtraction

SchemaReturns(ret, b) ==
    /\ stratResult' = [stratResult EXCEPT !["schema"] = ret]
    /\ IF AfterSchema(ret) = "return"
       THEN /\ result' = Resolve(result, ret)
            /\ cpc' = "done"
            /\ child' = NoChild
            /\ UNCHANGED spawnLog
       ELSE /\ cpc' = "basic"
            /\ child' = Spawn("tables", b)
            /\ spawnLog' = Append(spawnLog, "tables")
            /\ UNCHANGED result

SchemaClose(code, out, wf, b) ==
    /\ cpc = "schema" /\ child.cmd = "schema"
    /\ child.st \in {"running", "killed"}
    /\ child.st = "killed" => code # 0
    /\ IF code = 0 /\ out
       THEN IF wf
            THEN /\ SchemaReturns(Fail("write error"), b)
                 /\ UNCHANGED outFile
            ELSE /\ SchemaReturns(Ok, b)
                 /\ outFile' = <<Section("schema", 0, "", 0)>>
       ELSE /\ SchemaReturns(Fail("stderr"), b)
            /\ UNCHANGED outFile
    /\ UNCHANGED <<endpoint, hpc, orphans, tables, idx, successCount,
                   failedTables, response, progressLog, forceStopped,
                   ceilingElapsed, writeFailed, okDumps>>
    /\ UNCHANGED dbCreation
    /\ UNCHANGED otherVars

SchemaError(b) ==
    /\ cpc = "schema" /\ child.cmd = "schema" /\ child.st = "failing"
    /\ SchemaReturns(Fail("spawn error"), b)
    /\ UNCHANGED <<endpoint, hpc, orphans, tables, idx, successCount,
                   failedTables, outFile, response, progressLog, forceStopped,
                   ceilingElapsed, writeFailed, okDumps>>
    /\ UNCHANGED dbCreation
    /\ UNCHANGED otherVars

BasicResultChecksExit(code, out, wf) ==
    IF wf THEN Fail("write error")
    ELSE IF code # 0 \/ ~out THEN Fail("exit status") ELSE Ok

\* what the 'close' handler of tryBasicExtraction resolves with: the exit
\* status and the output only choose the comments of the script
BasicResult(code, out, wf) ==
    IF wf THEN Fail("write error") ELSE Ok

\* the script written by tryBasicExtraction
BasicScript(code, out) ==
    <<Section(IF code = 0 /\ out THEN "basic_list" ELSE "basic_none",
              0, "", 0)>>

\* 'close' of the .tables process; it also runs after an 'error' event
BasicClose(code, out, wf) ==
    /\ cpc = "basic" /\ child.cmd = "tables"
    /\ child.st \in {"running", "killed", "errclose"}
    /\ child.st # "running" => (code # 0 /\ ~out)
    /\ cpc' = "done"
    /\ child' = NoChild
    /\ result' = Resolve(result, BasicResult(code, out, wf))
    /\ stratResult' =
           [stratResult EXCEPT
               !["basic"] = Resolve(@, BasicResult(code, out, wf))]
    /\ outFile' = IF wf THEN outFile ELSE BasicScript(code, out)
    /\ UNCHANGED <<endpoint, hpc, orphans, spawnLog, tables, idx,
                   successCount, failedTables, response, progressLog,
                   forceStopped, ceilingElapsed, writeFailed, okDumps>>
    /\ UNCHANGED dbCreation
    /\ UNCHANGED otherVars

BasicError ==
    /\ cpc = "basic" /\ child.cmd = "tables" /\ child.st = "failing"
    /\ result' = Resolve(result, Fail("spawn error"))
    /\ stratResult' = [stratResult EXCEPT !["basic"] = Fail("spawn error")]
    /\ child' = [child EXCEPT !.st = "errclose"]
    /\ UNCHANGED <<endpoint, hpc, cpc, orphans, spawnLog, tables, idx,
                   successCount, failedTables, outFile, response, progressLog,
                   forceStopped, ceilingElapsed, writeFailed, okDumps>>
    /\ UNCHANGED dbCreation
    /\ UNCHANGED otherVars

-----------------------------------------------------------------------------
\* The request handlers after the recovery promise settled

\* res.json of /api/recover: { success, sqlFile, dbFile, stats }
RecoverResponse(res, open) ==
    [status |-> 200, fields |-> {"success", "sqlFile", "dbFile", "stats"},
     tablesRecovered |-> -1, totalTables |-> -1, error |-> "",
     delivered |-> open]

\* res.json of /api/manual-recovery:
\* { success, sqlFile, dbFile, tablesRecovered, totalTables }
ManualResponse(res, open) ==
    [status |-> 200,
     fields |-> {"success", "sqlFile", "dbFile", "tablesRecovered",
                 "totalTables"},
     tablesRecovered |-> res.tablesRecovered,
     totalTables |-> res.tablesRecovered + res.tablesFailed,
     error |-> "", delivered |-> open]

\* res.status(500).json({ error }) of the catch block
ErrorResponse(e, open) ==
    [status |-> 500, fields |-> {"error"}, tablesRecovered |-> -1,
     totalTables |-> -1, error |-> e, delivered |-> open]

\* the file at dbPath when createDatabaseFromSql spawns sqlite3 <dbPath>:
\* nothing touches the path before the spawn.  stale: a file is there.
AtSpawn(stale) == IF stale THEN "stale" ELSE "absent"

\* what sqlite3 <dbPath> leaves at dbPath after reading the script
Imported(file) == IF file = "absent" THEN "fresh" ELSE "mixed"

\* Variant: every exit status counts as success.
ImportAlwaysSucceeded(code) == TRUE

\* if (code === 0) in createDatabaseFromSql's 'close' handler
ImportSucceeded(code) == code = 0

\* the progress the handler publishes before it calls createDatabaseFromSql
DatabaseProgress(ep) == IF ep = "recover" THEN 70 ELSE 75

\* the handler resumes after `await executeRecovery(...)` or
\* `await tryTableByTableRecovery(...)`; on success it sends progress and
\* calls createDatabaseFromSql
HandlerResume(stale, b) ==
    /\ hpc = "recovery" /\ result.state = "resolved"
    /\ IF result.success
       THEN /\ hpc' = "database"
            /\ progressLog' =
                   Append(progressLog,
                          Event("database", DatabaseProgress(endpoint)))
            /\ child' = Spawn("import", b)
            /\ spawnLog' = Append(spawnLog, "import")
            /\ dbCreation' = [file |-> AtSpawn(stale), exit |-> "none"]
            /\ UNCHANGED response
       ELSE /\ hpc' = "responded"
            /\ response' = ErrorResponse(result.error, ~ceilingElapsed)
            /\ UNCHANGED <<child, spawnLog, progressLog, dbCreation>>
    /\ UNCHANGED <<endpoint, cpc, result, orphans, tables, idx, successCount,
                   failedTables, outFile, stratResult, forceStopped,
                   ceilingElapsed, writeFailed, okDumps>>
    /\ UNCHANGED otherVars

\* 'close' of createDatabaseFromSql's process and the rest of the handler
ImportClose(code) ==
    /\ hpc = "database" /\ child.cmd = "import"
    /\ child.st \in {"running", "killed"}
    /\ child.st = "killed" => code # 0
    /\ hpc' = "responded"
    /\ child' = NoChild
    /\ dbCreation' = [file |-> Imported(dbCreation.file),
                      exit |-> IF code = 0 THEN "zero" ELSE "nonzero"]
    /\ IF ImportSucceeded(code)
       THEN IF endpoint = "recover"
            THEN /\ progressLog' = Append(progressLog, Event("stats", 95))
                 /\ response' = RecoverResponse(result, ~ceilingElapsed)
            ELSE /\ response' = ManualResponse(result, ~ceilingElapsed)
                 /\ UNCHANGED progressLog
       ELSE /\ response' = ErrorResponse("stderr", ~ceilingElapsed)
            /\ UNCHANGED progressLog
    /\ UNCHANGED <<endpoint, cpc, result, orphans, spawnLog, tables, idx,
                   successCount, failedTables, outFile, stratResult,
                   forceStopped, ceilingElapsed, writeFailed, okDumps>>
    /\ UNCHANGED otherVars

ImportError ==
    /\ hpc = "database" /\ child.cmd = "import" /\ child.st = "failing"
    /\ hpc' = "responded"
    /\ child' = NoChild
    /\ response' = ErrorResponse("Failed to create database", ~ceilingElapsed)
    /\ dbCreation' = [dbCreation EXCEPT !.exit = "spawn error"]
    /\ UNCHANGED <<endpoint, cpc, result, orphans, spawnLog, tables, idx,
                   successCount, failedTables, outFile, stratResult,
                   progressLog, forceStopped, ceilingElapsed, writeFailed,
                   okDumps>>
    /\ UNCHANGED otherVars

-----------------------------------------------------------------------------
\* Abort control and the request timeout

InFlight == hpc \in {"recovery", "database"} \/ cpc \notin {"none", "done"}

\* POST /api/force-stop: exec('taskkill /F /IM sqlite3.exe') and a JSON
\* answer.  works: taskkill exists and found processes to kill.
ForceStop(works) ==
    /\ InFlight
    /\ forceStopped' = TRUE
    /\ IF works
       THEN /\ child' = IF child.st \in Alive
                        THEN [child EXCEPT !.st = "killed"] ELSE child
            /\ orphans' = 0
       ELSE UNCHANGED <<child, orphans>>
    /\ UNCHANGED <<endpoint, hpc, cpc, result, spawnLog, tables, idx,
                   successCount, failedTables, outFile, stratResult, response,
                   progressLog, ceilingElapsed, writeFailed, okDumps>>
    /\ UNCHANGED dbCreation
    /\ UNCHANGED otherVars

\* req.setTimeout(ms) / res.setTimeout(ms) without a callback: when the
\* time has elapsed the socket is destroyed; nothing else is registered.
CeilingElapsed ==
    /\ hpc \in {"recovery", "database"}
    /\ ~ceilingElapsed
    /\ ceilingElapsed' = TRUE
    /\ UNCHANGED <<endpoint, hpc, cpc, result, child, orphans, spawnLog,
                   tables, idx, successCount, failedTables, outFile,
                   stratResult, response, progressLog, forceStopped,
                   writeFailed, okDumps>>
    /\ UNCHANGED dbCreation
    /\ UNCHANGED otherVars

-----------------------------------------------------------------------------
\* The steps the server takes by itself: event handlers of its own child
\* processes, its timers, and resumptions after an await.
ChainStep ==
    \/ \E ok \in BOOLEAN, b \in SpawnBehaviours : VersionClose(ok, b)
    \/ VersionError
    \/ \E h \in BOOLEAN, b \in SpawnBehaviours : HelpClose(h, b)
    \/ \E b \in SpawnBehaviours : HelpError(b)
    \/ \E code \in {0, 1}, out, wf \in BOOLEAN, b \in SpawnBehaviours :
           PrimaryClose(code, out, wf, b)
    \/ PrimaryError
    \/ \E rows \in TableLists, wf \in BOOLEAN, b \in SpawnBehaviours :
           QueryClose(rows, wf, b)
    \/ \E b \in SpawnBehaviours : QueryError(b)
    \/ \E code \in {0, 1}, out, err, wfT, wfF \in BOOLEAN,
          b \in SpawnBehaviours : DumpClose(code, out, err, wfT, wfF, b)
    \/ \E wfT, wfF \in BOOLEAN, b \in SpawnBehaviours : DumpError(wfT, wfF, b)
    \/ \E t, wfT, wfF \in BOOLEAN, b \in SpawnBehaviours :
           DumpTimeout(t, wfT, wfF, b)
    \/ \E code \in {0, 1}, out, wf \in BOOLEAN, b \in SpawnBehaviours :
           SchemaClose(code, out, wf, b)
    \/ \E b \in SpawnBehaviours : SchemaError(b)
    \/ \E code \in {0, 1}, out, wf \in BOOLEAN : BasicClose(code, out, wf)
    \/ BasicError
    \/ \E stale \in BOOLEAN, b \in SpawnBehaviours : HandlerResume(stale, b)
    \/ \E code \in {0, 1} : ImportClose(code)
    \/ ImportError

SessionStep ==
    \/ \E ep \in {"recover", "manual"}, b \in SpawnBehaviours : Submit(ep, b)
    \/ ChainStep
    \/ \E works \in BOOLEAN : ForceStop(works)
    \/ CeilingElapsed

Next == SessionStep

Spec == Init /\ [][Next]_vars

-----------------------------------------------------------------------------
\* Vocabulary of the properties

Range(f) == {f[i] : i \in DOMAIN f}

IsPrefix(s, t) == Len(s) <= Len(t) /\ \A i \in 1..Len(s) : s[i] = t[i]

Returned(s) == stratResult[s].state = "resolved"

Succeeded(s) == Returned(s) /\ stratResult[s].success

Failed(s) == Returned(s) /\ ~stratResult[s].success

\* the first command of each strategy ("fulldump" is sqlite3 <db> .dump)
StartCmds == {"primary", "fulldump", "query", "schema", "tables"}

IsStart(c) == c \in StartCmds

IsChainCmd(c) == c \in StartCmds \cup {"dump"}

\* the strategies the session started, in order
StrategyStarts == SelectSeq(spawnLog, IsStart)

\* every process the strategy chain spawned, in order
ChainSpawns == SelectSeq(spawnLog, IsChainCmd)

StrategyOf(c) ==
    CASE c = "primary" -> "primary"
      [] c = "fulldump" -> "dump"
      [] c \in {"query", "dump"} -> "table"
      [] c = "schema" -> "schema"
      [] c = "tables" -> "basic"

StartOf(s) ==
    CASE s = "primary" -> "primary"
      [] s = "dump" -> "fulldump"
      [] s = "table" -> "query"
      [] s = "schema" -> "schema"
      [] s = "basic" -> "tables"

Rank(s) ==
    CASE s = "primary" -> 1
      [] s = "dump" -> 2
      [] s = "table" -> 3
      [] s = "schema" -> 4
      [] s = "basic" -> 5

\* the order in which executeRecovery tries its strategies
Chain == <<"primary", "query", "schema", "tables">>

\* the capability probe ended and executeRecovery skipped the primary
SkippedPrimary ==
    /\ "help" \in Range(spawnLog)
    /\ cpc # "help"
    /\ "primary" \notin Range(spawnLog)

-----------------------------------------------------------------------------
-----------------------------------------------------------------------------
-----------------------------------------------------------------------------
\* Table-by-table recovery

IsDump(c) == c = "dump"

\* number of tables for which a per-table dump was started
Attempted == Len(SelectSeq(spawnLog, IsDump))

\* the output file is still the one tryTableByTableRecovery wrote
TbtFinished == Returned("table") /\ ~Returned("schema") /\ tables # <<>>

\* every enumerated table has, in enumeration order, its section or its
\* placeholder comment with a reason, after the header
Annotated ==
    /\ Len(outFile) >= Len(tables) + 1
    /\ outFile[1].kind = "header"
    /\ \A i \in 1..Len(tables) :
          /\ outFile[i + 1].table = tables[i]
          /\ outFile[i + 1].kind \in {"table", "failed"}
          /\ outFile[i + 1].kind = "failed" <=>
                 tables[i] \in Range(failedTables)
          /\ outFile[i + 1].kind = "failed" => outFile[i + 1].text # ""

CountsAgree ==
    /\ stratResult["table"].tablesRecovered = okDumps
    /\ stratResult["table"].tablesRecovered + stratResult["table"].tablesFailed
           = Len(tables)

-----------------------------------------------------------------------------
\* Error handling, time limits and cancellation

\* the success response lets the caller read the number of failed tables
FailureCountReported ==
    \/ "tablesFailed" \in response.fields
    \/ /\ {"tablesRecovered", "totalTables"} \subseteq response.fields
       /\ response.totalTables - response.tablesRecovered =
              stratResult["table"].tablesFailed

\* C6 as stated: whenever a request succeeds through table-by-table recovery
\* with some tables recovered and some failed, the response is a success and
\* carries the number of failed tables.
C6_PartialFailureReported ==
    /\ hpc = "responded" /\ response.status = 200
    /\ Succeeded("table") /\ stratResult["table"].tablesFailed > 0
    => FailureCountReported

\* commands of the fallback strategies
FallbackCmds == {"fulldump", "query", "dump", "schema", "tables"}

SpawnErrors == {"SQLite3 is not available: not found",
                "SQLite3 is not available: not accessible",
                "Failed to execute sqlite3"}

\* C7 as stated: if sqlite3 cannot be spawned (the version probe fails or the
\* primary process emits a spawn error), executeRecovery returns failure and
\* no process of a fallback strategy is ever started in the session.
C7_SpawnErrorNoFallback ==
    result.state = "resolved" /\ result.error \in SpawnErrors =>
        /\ ~result.success
        /\ \A i \in DOMAIN spawnLog : spawnLog[i] \notin FallbackCmds

\* processes the chain starts without a timer of their own
Untimed == {"primary", "query", "schema", "tables"}

\* C8 as stated: a primary or fallback process that never exits is timed out
\* and killed and the chain proceeds, that is, while such a process hangs the
\* server always has a step of its own left to take.
C8_HangIsTimedOut ==
    child.st = "hung" /\ child.cmd \in Untimed => ENABLED ChainStep

\* C9 as stated: once the ceiling of a session has elapsed the session is
\* aborted: no child process of it stays alive, and a response sent
\* afterwards reports the timeout.
C9_CeilingAborts ==
    ceilingElapsed =>
        /\ child.st \notin Alive
        /\ hpc = "responded" => response.error = "timed out"

TerminalPhases == {"complete", "error", "cancelled"}

\* C10 as stated: once a session has been cancelled through force-stop, no
\* child process of it is alive and the last progress event published to
\* its subscribers is a terminal one.
C10_CancelTerminates ==
    forceStopped =>
        /\ child.st \notin Alive
        /\ progressLog # <<>>
        /\ progressLog[Len(progressLog)].phase \in TerminalPhases

-----------------------------------------------------------------------------
\* Capability probe

\* the probe processes: sqlite3 --version and sqlite3 :memory: .help
ProbeCmds == {"version", "help"}

\* C11 as stated: handling a recovery request spawns no capability-probe
\* process; the result of the probe made at startup is reused.
C11_ProbeOnlyAtStartup ==
    \A i \in DOMAIN spawnLog : spawnLog[i] \notin ProbeCmds

-----------------------------------------------------------------------------
\* tryDumpCommand: the streaming dump and its watchdog timers

\* Last instant the clock reaches.
MaxTime == 200

\* Most output, in MB, the dump process produces.
MaxMB == 13

\* Period of the process that emits one byte at a time.
TricklePeriod == 200

MB == 1048576

\* setTimeout(..., 20000): the one-shot zero-output check
ZeroOutputTimeout == 20

\* setInterval(..., 15000): the watchdog
WatchdogPeriod == 15

\* setInterval(..., 10000): the heartbeat
HeartbeatPeriod == 10

\* timeSinceStart >= 15
NoOutputLimit == 15

\* timeSinceSignificant >= 180
AbsoluteLimit == 180

\* timeSinceProgress > 120
StallLimit == 120

\* setTimeout(..., 1000) between SIGTERM and SIGKILL
EscalationDelay == 1

\* bytesWritten - lastSignificantSize > 10 * 1024 * 1024
SignificantJumpMB == 10

\* sizes of the chunks a 'data' event delivers: a trickling process emits
\* single bytes, the others emit 2 MB or 11 MB at a time
Chunks == {1, 2 * MB, 11 * MB}

\* "silent" emits nothing and never exits, "trickle" emits one byte every
\* TricklePeriod and never exits, "free" emits and exits as it likes,
\* "failing" could not be spawned.
ProfileKinds == {"silent", "trickle", "free", "failing"}

Profiles == [kind : ProfileKinds, ignoresTerm : BOOLEAN]

\* when a trickling process emits its first byte
TrickleStarts == {0, 5, NoOutputLimit, TricklePeriod}

NoOutput20 == "Database too corrupted for full dump"

NoOutput == "Process produced no output"

Stuck == "Process stuck on corrupted data - timeout"

Stalled == "Dump process timeout"

\* the exit status 'close' reports after a failed spawn
SpawnFailed == -2

\* the object the kill branches pass to resolve
KillResult(e, partial) ==
    [state |-> "resolved", success |-> FALSE, error |-> e, timeout |-> TRUE,
     partialData |-> partial,
     fields |-> {"success", "error", "timeout", "partialData"}, at |-> now]

\* the object the 'close' and 'error' handlers pass to resolve
PlainResult(ok, e) ==
    [state |-> "resolved", success |-> ok, error |-> e, timeout |-> FALSE,
     partialData |-> FALSE,
     fields |-> IF ok THEN {"success"} ELSE {"success", "error"}, at |-> now]

ResolveDump(r) == IF dumpResult.state = "pending" THEN r ELSE dumpResult

\* sqlite3.kill(sig): the signal is delivered to a live process and sets
\* sqlite3.killed; SIGTERM ends the process unless it ignores the signal.
Kill(sig) ==
    IF sqlite3.st = "alive"
    THEN [sqlite3 EXCEPT
             !.st = IF sig = "SIGKILL" \/ ~profile.ignoresTerm
                    THEN "dead" ELSE "alive",
             !.code = IF sig = "SIGKILL" \/ ~profile.ignoresTerm
                      THEN -1 ELSE @,
             !.killed = TRUE,
             !.signals = Append(@, sig)]
    ELSE sqlite3

\* outputStream.end()
EndStream == IF outputStream.st = "open"
             THEN [outputStream EXCEPT !.st = "ended"] ELSE outputStream

\* Variant: the watchdog has no zero-output branch.
WatchdogNeverNoOutput(b, sinceStart) == FALSE

\* if (bytesWritten === 0 && timeSinceStart >= 15)
WatchdogNoOutput(b, sinceStart) == b = 0 /\ sinceStart >= NoOutputLimit

\* Variant: the watchdog has no absolute ceiling.
WatchdogNeverStuck(b, sinceSignificant) == FALSE

\* else if (timeSinceSignificant >= 180 && bytesWritten > 0)
WatchdogStuck(b, sinceSignificant) ==
    sinceSignificant >= AbsoluteLimit /\ b > 0

\* Variant: the heartbeat never moves its checkpoint.
NoSignificantProgress(progressSinceLastCheck) == FALSE

\* if (progressSinceLastCheck > 1024 * 1024): the heartbeat moves its
\* checkpoint (lastSignificantProgress, bytesAtLastCheck)
SignificantProgress(progressSinceLastCheck) == progressSinceLastCheck > MB

\* Variant: the heartbeat never declares a stall.
StallNeverDetected(b, sinceProgress) == FALSE

\* if (timeSinceProgress > 120 && bytesWritten > 0)
StallDetected(b, sinceProgress) == sinceProgress > StallLimit /\ b > 0

\* bytesWritten % (50 * 1024 * 1024)
ProgressQuantumMB == 50

\* now - lastProgressUpdate > 3000
ProgressGap == 3

\* the condition under which the 'data' handler calls sendProgress
ProgressDue(sinceUpdate, b, length) ==
    sinceUpdate > ProgressGap \/ b % (ProgressQuantumMB * MB) < length

\* Variant: success whenever the exit status is 0.
CloseResultIgnoresBytes(code, b) ==
    IF code = 0
    THEN PlainResult(TRUE, "")
    ELSE PlainResult(FALSE, "No data recovered")

\* the end of the 'close' handler: code === 0 && bytesWritten > 0
CloseResult(code, b) ==
    IF code = 0 /\ b > 0
    THEN PlainResult(TRUE, "")
    ELSE PlainResult(FALSE, "No data recovered")

\* if (!sqlite3.killed) in the escalation timer
EscalationNeeded(killed) == ~killed

\* the state right after the synchronous part of tryDumpCommand
DumpStart ==
    /\ now = 0
    /\ profile \in Profiles
    /\ sqlite3 = [st |-> IF profile.kind = "failing" THEN "failing"
                         ELSE "alive",
                  code |-> 0, killed |-> FALSE, signals |-> <<>>]
    /\ nextData \in IF profile.kind = "trickle" THEN TrickleStarts ELSE {Off}
    /\ bytesWritten = 0
    /\ processComplete = FALSE
    /\ lastSignificantProgress = 0
    /\ bytesAtLastCheck = 0
    /\ lastSignificantSize = 0
    /\ timeAtLastSignificantSize = 0
    /\ lastProgressUpdate = 0
    /\ timers = [zero |-> ZeroOutputTimeout, watchdog |-> WatchdogPeriod,
                 heartbeat |-> HeartbeatPeriod, escalate |-> Off]
    /\ outputStream = [st |-> "open", waiting |-> FALSE]
    /\ dumpResult = NoDumpResult

InitDump == SessionIdle /\ DumpStart /\ ChannelIdle /\ AuxIdle

\* what a step of tryDumpCommand leaves alone
notDumpVars == <<sessionVars, channelVars, auxVars>>

dumpCounters ==
    <<bytesWritten, lastSignificantProgress, bytesAtLastCheck,
      lastSignificantSize, timeAtLastSignificantSize, lastProgressUpdate>>

\* the body shared by the three SIGKILL branches
KillNow(e, partial, newTimers) ==
    /\ processComplete' = TRUE
    /\ timers' = newTimers
    /\ sqlite3' = Kill("SIGKILL")
    /\ outputStream' = EndStream
    /\ dumpResult' = ResolveDump(KillResult(e, partial))

\* the 20 s one-shot timer
ZeroOutputTimer ==
    /\ timers.zero = now
    /\ IF bytesWritten = 0 /\ ~processComplete
       THEN KillNow(NoOutput20, FALSE, [timers EXCEPT !.zero = Off])
       ELSE /\ timers' = [timers EXCEPT !.zero = Off]
            /\ UNCHANGED <<processComplete, sqlite3, outputStream, dumpResult>>
    /\ UNCHANGED <<now, profile, nextData, dumpCounters, notDumpVars>>

\* one tick of watchdogInterval
Watchdog ==
    /\ timers.watchdog = now
    /\ IF processComplete
       THEN /\ timers' = [timers EXCEPT !.watchdog = now + WatchdogPeriod]
            /\ UNCHANGED <<processComplete, sqlite3, outputStream, dumpResult>>
       ELSE IF WatchdogNoOutput(bytesWritten, now)
       THEN KillNow(NoOutput, FALSE,
                    [timers EXCEPT !.watchdog = Off, !.heartbeat = Off])
       ELSE IF WatchdogStuck(bytesWritten, now - timeAtLastSignificantSize)
       THEN KillNow(Stuck, bytesWritten > 0,
                    [timers EXCEPT !.watchdog = Off, !.heartbeat = Off])
       ELSE /\ timers' = [timers EXCEPT !.watchdog = now + WatchdogPeriod]
            /\ UNCHANGED <<processComplete, sqlite3, outputStream, dumpResult>>
    /\ UNCHANGED <<now, profile, nextData, dumpCounters, notDumpVars>>

\* one tick of heartbeatInterval
Heartbeat ==
    LET progressed == SignificantProgress(bytesWritten - bytesAtLastCheck)
        lsp == IF progressed THEN now ELSE lastSignificantProgress
    IN  /\ timers.heartbeat = now
        /\ IF processComplete
           THEN /\ timers' =
                       [timers EXCEPT !.heartbeat = now + HeartbeatPeriod]
                /\ UNCHANGED <<processComplete, sqlite3, outputStream,
                               dumpResult, lastSignificantProgress,
                               bytesAtLastCheck>>
           ELSE /\ lastSignificantProgress' = lsp
                /\ bytesAtLastCheck' =
                       IF progressed THEN bytesWritten ELSE bytesAtLastCheck
                /\ IF StallDetected(bytesWritten, now - lsp)
                   THEN /\ processComplete' = TRUE
                        /\ timers' = [timers EXCEPT
                                         !.heartbeat = Off,
                                         !.escalate = now + EscalationDelay]
                        /\ sqlite3' = Kill("SIGTERM")
                        /\ outputStream' = EndStream
                        /\ dumpResult' =
                               ResolveDump(KillResult(Stalled,
                                                      bytesWritten > 0))
                   ELSE /\ timers' = [timers EXCEPT
                                         !.heartbeat = now + HeartbeatPeriod]
                        /\ UNCHANGED <<processComplete, sqlite3, outputStream,
                                       dumpResult>>
        /\ UNCHANGED <<now, profile, nextData, bytesWritten,
                       lastSignificantSize, timeAtLastSignificantSize,
                       lastProgressUpdate, notDumpVars>>

\* the timer armed after SIGTERM
Escalate ==
    /\ timers.escalate = now
    /\ timers' = [timers EXCEPT !.escalate = Off]
    /\ sqlite3' = IF EscalationNeeded(sqlite3.killed)
                  THEN Kill("SIGKILL") ELSE sqlite3
    /\ UNCHANGED <<now, profile, nextData, dumpCounters, processComplete,
                   outputStream, dumpResult, notDumpVars>>

\* sqlite3.stdout.on('data')
Data(chunk) ==
    /\ sqlite3.st = "alive"
    /\ bytesWritten + chunk <= MaxMB * MB
    /\ \/ /\ profile.kind = "trickle"
          /\ chunk = 1 /\ nextData = now
          /\ nextData' = now + TricklePeriod
       \/ /\ profile.kind = "free"
          /\ chunk > 1
          /\ UNCHANGED nextData
    /\ bytesWritten' = bytesWritten + chunk
    /\ IF bytesWritten' - lastSignificantSize > SignificantJumpMB * MB
       THEN /\ lastSignificantSize' = bytesWritten'
            /\ timeAtLastSignificantSize' = now
       ELSE UNCHANGED <<lastSignificantSize, timeAtLastSignificantSize>>
    /\ lastProgressUpdate' =
           IF ProgressDue(now - lastProgressUpdate, bytesWritten', chunk)
           THEN now ELSE lastProgressUpdate
    /\ UNCHANGED <<now, profile, sqlite3, processComplete,
                   lastSignificantProgress, bytesAtLastCheck, timers,
                   outputStream, dumpResult, notDumpVars>>

\* the process exits by itself with status code
Exit(code) ==
    /\ profile.kind = "free" /\ sqlite3.st = "alive"
    /\ sqlite3' = [sqlite3 EXCEPT !.st = "dead", !.code = code]
    /\ UNCHANGED <<now, profile, nextData, dumpCounters, processComplete,
                   timers, outputStream, dumpResult, notDumpVars>>

\* outputStream 'error': writeError = err; the stream never finishes
StreamError ==
    /\ profile.kind = "free" /\ bytesWritten > 0
    /\ outputStream.st \in {"open", "ended"}
    /\ outputStream' = [outputStream EXCEPT !.st = "errored"]
    /\ UNCHANGED <<now, profile, sqlite3, nextData, dumpCounters,
                   processComplete, timers, dumpResult, notDumpVars>>

\* sqlite3.on('error'): the spawn failed; 'close' follows
SpawnError ==
    /\ sqlite3.st = "failing"
    /\ sqlite3' = [sqlite3 EXCEPT !.st = "dead", !.code = SpawnFailed]
    /\ processComplete' = TRUE
    /\ timers' = [timers EXCEPT !.heartbeat = Off, !.watchdog = Off]
    /\ outputStream' = EndStream
    /\ dumpResult' = ResolveDump(PlainResult(FALSE, "spawn error"))
    /\ UNCHANGED <<now, profile, nextData, dumpCounters, notDumpVars>>

\* 'end' of the process's stdout after the process has gone: the pipe
\* calls outputStream.end()
PipeEnd ==
    /\ sqlite3.st = "dead" /\ sqlite3.code # SpawnFailed
    /\ sqlite3' = [sqlite3 EXCEPT !.st = "drained"]
    /\ outputStream' = EndStream
    /\ UNCHANGED <<now, profile, nextData, dumpCounters, processComplete,
                   timers, dumpResult, notDumpVars>>

\* sqlite3.on('close') up to its await of the stream's 'finish'; the event
\* follows the end of the process's output streams
StreamClose ==
    /\ \/ sqlite3.st = "drained"
       \/ sqlite3.st = "dead" /\ sqlite3.code = SpawnFailed
    /\ sqlite3' = [sqlite3 EXCEPT !.st = "closed"]
    /\ processComplete' = TRUE
    /\ timers' = [timers EXCEPT !.heartbeat = Off, !.watchdog = Off]
    /\ outputStream' = [EndStream EXCEPT !.waiting = TRUE]
    /\ UNCHANGED <<now, profile, nextData, dumpCounters, dumpResult,
                   notDumpVars>>

\* the stream's 'finish' event, and the rest of the 'close' handler if it
\* is waiting for it
StreamFinish ==
    /\ outputStream.st = "ended"
    /\ outputStream' = [outputStream EXCEPT !.st = "finished"]
    /\ dumpResult' =
           IF ~outputStream.waiting THEN dumpResult
           ELSE ResolveDump(CloseResult(sqlite3.code, bytesWritten))
    /\ UNCHANGED <<now, profile, sqlite3, nextData, dumpCounters,
                   processComplete, timers, notDumpVars>>

\* times at which something is due
Due ==
    ({timers.zero, timers.watchdog, timers.heartbeat, timers.escalate}
         \cup (IF profile.kind = "trickle" /\ sqlite3.st = "alive"
               THEN {nextData} ELSE {}))
    \ {Off}

\* the clock moves to the next due time once everything due now was handled
Advance ==
    /\ Due # {}
    /\ \A t \in Due : t > now
    /\ now' = CHOOSE t \in Due : \A u \in Due : t <= u
    /\ now' <= MaxTime
    /\ UNCHANGED <<profile, sqlite3, nextData, dumpCounters, processComplete,
                   timers, outputStream, dumpResult, notDumpVars>>

NextDump ==
    \/ ZeroOutputTimer
    \/ Watchdog
    \/ Heartbeat
    \/ Escalate
    \/ \E chunk \in Chunks : Data(chunk)
    \/ \E code \in {0, 1} : Exit(code)
    \/ StreamError
    \/ SpawnError
    \/ PipeEnd
    \/ StreamClose
    \/ StreamFinish
    \/ Advance

SpecDump == InitDump /\ [][NextDump]_vars

-----------------------------------------------------------------------------
\* Properties of the streaming watchdog

DumpResolved == dumpResult.state = "resolved"

\* C12: a dump process that emits zero bytes and does not exit is killed by
\* a no-output branch: the promise is resolved with a no-output error and
\* SIGKILL is sent no earlier than 15 s and no later than 20 s after the
\* spawn, hence within the 15-20 s window and never one watchdog tick (15 s)
\* beyond it; past 15 s no such run is still unresolved.
C12_NoOutputKilledInWindow ==
    profile.kind = "silent" =>
        /\ now > NoOutputLimit => DumpResolved
        /\ DumpResolved =>
              /\ dumpResult.error \in {NoOutput, NoOutput20}
              /\ dumpResult.at >= NoOutputLimit
              /\ dumpResult.at <= ZeroOutputTimeout
              /\ dumpResult.at <= ZeroOutputTimeout + WatchdogPeriod
              /\ sqlite3.st # "alive"
              /\ sqlite3.signals = <<"SIGKILL">>

\* a silent process killed by the watchdog's first tick
C12_Witness ==
    /\ profile.kind = "silent" /\ DumpResolved
    /\ dumpResult.error = NoOutput /\ dumpResult.at = WatchdogPeriod
    /\ bytesWritten = 0

\* C13 as stated: a process that emits 1 byte every 200 s is killed by the
\* absolute-ceiling branch of the watchdog, not by the stall detector.
C13_TrickleReachesCeiling ==
    profile.kind = "trickle" /\ DumpResolved => dumpResult.error = Stuck

\* first heartbeat tick at which more than StallLimit seconds have passed
FirstStallTick == ((StallLimit \div HeartbeatPeriod) + 1) * HeartbeatPeriod

\* C13 amended: a process that emits 1 byte every 200 s and never exits is
\* killed by the heartbeat's stall detector at the first heartbeat more than
\* 120 s after the start (130 s), or, when its first byte had not arrived
\* by the watchdog's 15 s tick, by the no-output branch at 15 s; it is never
\* killed by the absolute-ceiling branch, and past 130 s no such run is
\* still unresolved.
C13_TrickleKilledAsStalled ==
    profile.kind = "trickle" =>
        /\ now > FirstStallTick => DumpResolved
        /\ DumpResolved =>
              \/ /\ dumpResult.error = Stalled
                 /\ dumpResult.at = FirstStallTick
                 /\ bytesWritten > 0
              \/ /\ dumpResult.error = NoOutput
                 /\ dumpResult.at = NoOutputLimit
                 /\ bytesWritten = 0

\* a process that emitted its single byte and was killed as stalled at 130 s
C13_Witness ==
    /\ profile.kind = "trickle" /\ DumpResolved
    /\ dumpResult.error = Stalled /\ dumpResult.at = FirstStallTick
    /\ bytesWritten = 1

\* C14 as stated: every kill transition (no-output, stalled, absolute
\* timeout) terminates the child process, ends the destination stream, and
\* delivers a result that reports the bytes written so far and the elapsed
\* time.
C14_KillReleasesAndReports ==
    dumpResult.timeout =>
        /\ sqlite3.st = "alive" => timers.escalate # Off
        /\ outputStream.st # "open"
        /\ {"bytesWritten", "elapsed"} \subseteq dumpResult.fields

\* C15 as stated: a timed-out process that ignores the termination signal
\* is sent SIGKILL when the 1 s grace period is over, so once the escalation
\* timer of a stalled dump has fired the process is no longer alive.
C15_EscalatesToSigkill ==
    dumpResult.error = Stalled /\ timers.escalate = Off =>
        sqlite3.st # "alive"

-----------------------------------------------------------------------------
\* The progress channel: /api/progress/:sessionId and sendProgress

\* what a step of the progress channel leaves alone
notChannelVars == <<sessionVars, dumpVars, auxVars>>

\* Variant: the event goes to the clients of every session.
RecipientsOfAll(s) ==
    UNION {Range(progressStore[t].clients) : t \in Sessions}

\* const clients = progressStore.get(sessionId); clients.forEach(...)
Recipients(s) ==
    IF progressStore[s].has THEN Range(progressStore[s].clients) ELSE {}

\* Variant: the entry of a session is never deleted.
NeverTornDown(clients) == FALSE

\* if (clients.length === 0) progressStore.delete(sessionId)
TornDown(clients) == Len(clients) = 0

\* Variant: the stream opens with no event.
OpeningNothing == <<>>

\* res.write of the initial connection message
Opening == <<"connected">>

\* clients.splice(clients.indexOf(res), 1)
Splice(clients, c) ==
    IF c \in Range(clients)
    THEN LET i == CHOOSE j \in 1..Len(clients) :
                      clients[j] = c /\ \A k \in 1..(j - 1) : clients[k] # c
         IN  SubSeq(clients, 1, i - 1) \o SubSeq(clients, i + 1, Len(clients))
    ELSE clients

\* GET /api/progress/:sessionId
Subscribe(c, s) ==
    /\ conns[c].st = "new"
    /\ conns' = [conns EXCEPT ![c] = [st |-> "open", session |-> s,
                                      stream |-> Opening,
                                      subAt |-> Len(pubLog), closeAt |-> 0]]
    /\ progressStore' =
           [progressStore EXCEPT
               ![s] = [has |-> TRUE,
                       clients |-> Append(IF @.has THEN @.clients ELSE <<>>,
                                          c)]]
    /\ UNCHANGED <<pubLog, notChannelVars>>

\* req.on('close') of a progress connection
Disconnect(c) ==
    LET s == conns[c].session
        rest == Splice(progressStore[s].clients, c)
    IN  /\ conns[c].st = "open"
        /\ conns' = [conns EXCEPT ![c].st = "closed",
                                  ![c].closeAt = Len(pubLog)]
        /\ progressStore' =
               IF ~progressStore[s].has THEN progressStore
               ELSE IF TornDown(rest)
               THEN [progressStore EXCEPT
                        ![s] = [has |-> FALSE, clients |-> <<>>]]
               ELSE [progressStore EXCEPT ![s].clients = rest]
        /\ UNCHANGED <<pubLog, notChannelVars>>

\* sendProgress(sessionId, data); the event is named by its place in pubLog
Publish(s) ==
    LET e == Len(pubLog) + 1
    IN  /\ Len(pubLog) < MaxEvents
        /\ pubLog' = Append(pubLog, s)
        /\ conns' = [c \in Conns |->
                        IF c \in Recipients(s)
                        THEN [conns[c] EXCEPT !.stream = Append(@, e)]
                        ELSE conns[c]]
        /\ UNCHANGED <<progressStore, notChannelVars>>

NextChannel ==
    \/ \E c \in Conns, s \in Sessions : Subscribe(c, s)
    \/ \E c \in Conns : Disconnect(c)
    \/ \E s \in Sessions : Publish(s)

SpecChannel == Init /\ [][NextChannel]_vars

-----------------------------------------------------------------------------
\* Properties of the progress channel

\* C16: a sendProgress(sessionId, event) call writes the event exactly once
\* to every connection registered under sessionId and to no other
\* connection, and leaves the registry as it was (with no subscriber it
\* changes nothing but the log of calls).
C16_FanOut ==
    [][pubLog' # pubLog =>
          LET s == pubLog'[Len(pubLog')]
              e == Len(pubLog')
          IN  /\ progressStore' = progressStore
              /\ \A c \in Conns :
                    IF progressStore[s].has
                           /\ \E i \in DOMAIN progressStore[s].clients :
                                 progressStore[s].clients[i] = c
                    THEN conns'[c] =
                             [conns[c] EXCEPT !.stream = Append(@, e)]
                    ELSE conns'[c] = conns[c]]_vars

\* two open subscribers of different sessions, both subscribed before the
\* first event; one got an event, the other did not
C16_Witness ==
    \E c, d \in Conns :
        /\ conns[c].st = "open" /\ conns[d].st = "open"
        /\ conns[c].session # conns[d].session
        /\ conns[c].subAt = 0 /\ conns[d].subAt = 0
        /\ conns[c].stream = <<"connected", 1>>
        /\ conns[d].stream = <<"connected">>

Live(s) == {c \in Conns : conns[c].st = "open" /\ conns[c].session = s}

\* C17: after any interleaving of subscribe and disconnect events the
\* registry has an entry for a session if and only if the session has a
\* live subscriber, no entry holds an empty list, and each live connection
\* is in the list of its session exactly once.
C17_RegistryMatchesSubscribers ==
    \A s \in Sessions :
        /\ progressStore[s].has <=> Live(s) # {}
        /\ progressStore[s].has => Len(progressStore[s].clients) > 0
        /\ Range(progressStore[s].clients) = Live(s)
        /\ Len(progressStore[s].clients) = Cardinality(Live(s))

\* the only subscriber of a session left and the entry is gone, while
\* another session still has its subscriber
C17_Witness ==
    \E c, d \in Conns :
        /\ conns[c].st = "closed" /\ ~progressStore[conns[c].session].has
        /\ conns[d].st = "open" /\ progressStore[conns[d].session].has
        /\ conns[c].session # conns[d].session

\* the events published for the session of c while c was subscribed
Expected(c) ==
    LET hi == IF conns[c].st = "closed" THEN conns[c].closeAt
              ELSE Len(pubLog)
        During(i) == /\ i > conns[c].subAt /\ i <= hi
                     /\ pubLog[i] = conns[c].session
    IN  SelectSeq([i \in 1..Len(pubLog) |-> i], During)

\* C18: the stream of a subscriber is the 'connected' event followed by
\* exactly the events published for its session between its subscription
\* and its disconnect, in publish order; events published earlier are never
\* delivered to it.
C18_NoReplay ==
    \A c \in Conns :
        conns[c].st # "new" =>
            conns[c].stream = <<"connected">> \o Expected(c)

\* a subscriber that connected after the first event of its session and
\* received only the second
C18_Witness ==
    \E c \in Conns :
        /\ conns[c].subAt = 1 /\ Len(pubLog) = 2
        /\ pubLog[1] = conns[c].session /\ pubLog[2] = conns[c].session
        /\ conns[c].stream = <<"connected", 2>>

-----------------------------------------------------------------------------
\* The database materializer

\* C19: a request answers with success (and artifact names) only if the
\* materializer process exited with status 0; after a nonzero exit or a
\* spawn failure of the materializer the answer is an error without artifact
\* names, although the recovery itself had produced a script.
C19_MaterializationFailureSurfaced ==
    hpc = "responded" =>
        /\ response.status = 200 => dbCreation.exit = "zero"
        /\ dbCreation.exit \in {"nonzero", "spawn error"} =>
              /\ response.status = 500
              /\ response.fields = {"error"}

\* the recovery succeeded, the import exited nonzero, the answer is an error
C19_Witness ==
    /\ hpc = "responded" /\ result.success
    /\ dbCreation.exit = "nonzero"
    /\ response.status = 500

\* C20 as stated: the materializer removes any pre-existing file at the
\* target path before it starts the import, so no file is at the path while
\* the import runs and the materialized database never holds content of an
\* earlier file.
C20_TargetRemovedBeforeImport ==
    /\ hpc = "database" => dbCreation.file # "stale"
    /\ dbCreation.file # "mixed"


-----------------------------------------------------------------------------
\* The table-list-only step (tryBasicExtraction)

\* errors with which executeRecovery fails because sqlite3 could not be
\* spawned or a write to the output file was rejected
SpawnOrWriteErrors ==
    {"SQLite3 is not available: not found", "Failed to execute sqlite3",
     "spawn error", "write error", "Failed to write recovery file"}

\* the scripts tryBasicExtraction writes: PRAGMA, BEGIN TRANSACTION, comments
\* (the table list, or the note that none was identified), COMMIT
BasicScripts ==
    {<<Section(k, 0, "", 0)>> : k \in {"basic_list", "basic_none"}}

\* the step returned and neither its spawn nor its write failed
BasicRan ==
    /\ Returned("basic")
    /\ stratResult["basic"].error \notin {"spawn error", "write error"}

BasicNeverHardFails ==
    BasicRan => Succeeded("basic") /\ outFile \in BasicScripts

-----------------------------------------------------------------------------
\* Processes of one session

\* sqlite3 processes spawned for the session that are still alive: the one
\* the chain awaits and those a timed-out dumpSingleTable left behind
LiveChildren == orphans + (IF child.st \in Alive THEN 1 ELSE 0)

\* C30 as stated: at every moment at most one sqlite3 process spawned for the
\* session is alive; the dump of the next table or the next strategy is never
\* started while the process of a table is still running, also after that
\* table's 30 s timeout fired.
C30_AtMostOneLiveChild == LiveChildren <= 1

-----------------------------------------------------------------------------
\* Upload intake of /api/recover and /api/manual-recovery: the uploaded
\* file, the extraction of an archive, and the release of the input files.
\* The two handlers treat their input files alike.

MaxEntries == 2

\* an entry name is a stem and an extension; path.extname gives the extension
Stems == {"notes", "klopos"}

Exts == {".db", ".SQLITE3", ".txt"}

\* header.size of an entry
Sizes == {0, 1, 2}

\* String.prototype.toLowerCase on the names used here
ToLowerCase(x) == IF x = ".SQLITE3" THEN ".sqlite3" ELSE x

sqliteExtensions == {".db", ".sqlite", ".sqlite3"}

\* the name parts that include 'db', 'database', 'sqlite' or 'klopos'
IncludesKeyword(x) == x \in {"klopos", ".db", ".sqlite", ".sqlite3"}

Entries ==
    [isDirectory : {FALSE}, stem : Stems, ext : Exts, size : Sizes]
    \cup [isDirectory : {TRUE}, stem : Stems, ext : {".db"}, size : {0}]

Archives == UNION {[1..n -> Entries] : n \in 0..MaxEntries}

ExtMatch(e) ==
    ~e.isDirectory /\ ToLowerCase(e.ext) \in sqliteExtensions

NameMatch(e) ==
    /\ ~e.isDirectory
    /\ IncludesKeyword(e.stem) \/ IncludesKeyword(ToLowerCase(e.ext))

\* first loop: the first entry with a SQLite extension, 0 if none
RECURSIVE FirstByExtension(_, _)
FirstByExtension(es, i) ==
    IF i > Len(es) THEN 0
    ELSE IF ExtMatch(es[i]) THEN i
    ELSE FirstByExtension(es, i + 1)

\* second loop: the first entry whose name holds a keyword, 0 if none
RECURSIVE FirstByName(_, _)
FirstByName(es, i) ==
    IF i > Len(es) THEN 0
    ELSE IF NameMatch(es[i]) THEN i
    ELSE FirstByName(es, i + 1)

RECURSIVE LargestCountsEmpty(_, _, _, _)
LargestCountsEmpty(es, i, largestEntry, largestSize) ==
    IF i > Len(es) THEN largestEntry
    ELSE IF ~es[i].isDirectory /\ es[i].size >= largestSize
    THEN LargestCountsEmpty(es, i + 1, i, es[i].size)
    ELSE LargestCountsEmpty(es, i + 1, largestEntry, largestSize)

\* third loop: largestEntry after the scan, starting from null and size 0
RECURSIVE Largest(_, _, _, _)
Largest(es, i, largestEntry, largestSize) ==
    IF i > Len(es) THEN largestEntry
    ELSE IF ~es[i].isDirectory /\ es[i].size > largestSize
    THEN Largest(es, i + 1, i, es[i].size)
    ELSE Largest(es, i + 1, largestEntry, largestSize)

SelectIgnoresExtension(es) ==
    IF FirstByName(es, 1) # 0 THEN FirstByName(es, 1)
    ELSE Largest(es, 1, 0, 0)

\* sqliteEntry of extractSqliteFromZip: the index of the entry, 0 for null
SelectEntry(es) ==
    IF FirstByExtension(es, 1) # 0 THEN FirstByExtension(es, 1)
    ELSE IF FirstByName(es, 1) # 0 THEN FirstByName(es, 1)
    ELSE Largest(es, 1, 0, 0)

notIntakeVars ==
    <<sessionVars, dumpVars, channelVars, downloadVars, statusVars,
      cleanupVars, statsVars,
      importVars>>

\* the catch block of the handler: it unlinks req.file.path; inputPath and
\* originalInputPath are declared inside the try block, so typeof inputPath
\* is 'undefined' here and the extracted file is not unlinked
CatchBlock ==
    /\ disk' = disk \ {"upload"}
    /\ reply' = 500
    /\ ipc' = "done"
    /\ UNCHANGED <<upload, archive, readable, inputPath>>

\* the archive was extracted: the uploaded archive is unlinked, inputPath is
\* the extracted file and the recovery is called
Extracted ==
    /\ disk' = (disk \cup {"extracted"}) \ {"upload"}
    /\ inputPath' = "extracted"
    /\ started' = TRUE
    /\ ipc' = "recovering"
    /\ UNCHANGED <<upload, archive, readable, reply>>

\* multer stored the upload (or there was none) and the handler ran up to
\* its first await
Receive(u, es, rd) ==
    /\ ipc = "idle"
    /\ upload' = u
    /\ archive' = es
    /\ readable' = rd
    /\ UNCHANGED sqliteEntry
    /\ IF u = "missing"
       THEN /\ reply' = 400
            /\ ipc' = "done"
            /\ UNCHANGED <<disk, inputPath, started>>
       ELSE /\ disk' = {"upload"}
            /\ inputPath' = "upload"
            /\ reply' = 0
            /\ started' = (u = "plain")
            /\ ipc' = IF u = "zip" THEN "extract" ELSE "recovering"
    /\ UNCHANGED notIntakeVars

\* a request without a file, or with a file whose extension is not .zip
ReceiveFile ==
    ipc = "idle" /\ \E u \in {"missing", "plain"} : Receive(u, <<>>, TRUE)

\* a request with a .zip upload
ReceiveArchive ==
    ipc = "idle" /\ \E es \in Archives, rd \in BOOLEAN : Receive("zip", es, rd)

\* extractSqliteFromZip with adm-zip; ok: the chosen entry can be written
Extract(ok) ==
    /\ ipc = "extract" /\ readable
    /\ sqliteEntry' = SelectEntry(archive)
    /\ IF SelectEntry(archive) # 0 /\ ok
       THEN Extracted
       ELSE CatchBlock /\ UNCHANGED started
    /\ UNCHANGED notIntakeVars

\* the name test of extractWithAlternativeMethod: includes 'db' or 'klopos',
\* or ends with a SQLite extension
AltMatch(e) ==
    /\ ~e.isDirectory
    /\ \/ e.stem = "klopos"
       \/ ToLowerCase(e.ext) \in sqliteExtensions

\* extractWithAlternativeMethod, when adm-zip cannot read the archive;
\* works: Expand-Archive exists and exits with status 0
AltExtract(works) ==
    /\ ipc = "extract" /\ ~readable
    /\ IF works /\ \E i \in DOMAIN archive : AltMatch(archive[i])
       THEN Extracted
       ELSE CatchBlock /\ UNCHANGED started
    /\ UNCHANGED sqliteEntry
    /\ UNCHANGED notIntakeVars

\* executeRecovery / tryTableByTableRecovery returned
RecoveryReturns(ok) ==
    /\ ipc = "recovering"
    /\ IF ok
       THEN /\ ipc' = "materializing"
            /\ UNCHANGED <<upload, archive, readable, disk, inputPath, reply>>
       ELSE CatchBlock
    /\ UNCHANGED <<started, sqliteEntry>>
    /\ UNCHANGED notIntakeVars

\* createDatabaseFromSql returned; on success the handler unlinks inputPath
\* and answers
MaterializeReturns(ok) ==
    /\ ipc = "materializing"
    /\ IF ok
       THEN /\ disk' = disk \ {inputPath}
            /\ reply' = 200
            /\ ipc' = "done"
            /\ UNCHANGED <<upload, archive, readable, inputPath>>
       ELSE CatchBlock
    /\ UNCHANGED <<started, sqliteEntry>>
    /\ UNCHANGED notIntakeVars

NextIntake ==
    \/ ReceiveFile
    \/ ReceiveArchive
    \/ \E ok \in BOOLEAN : Extract(ok)
    \/ \E works \in BOOLEAN : AltExtract(works)
    \/ \E ok \in BOOLEAN : RecoveryReturns(ok)
    \/ \E ok \in BOOLEAN : MaterializeReturns(ok)

SpecIntake == Init /\ [][NextIntake]_vars

\* C21 as stated: once /api/recover or /api/manual-recovery has responded
\* (success, strategy failure, materialization failure or exception), neither
\* the uploaded file nor its extracted substitute remains on disk.
C21_InputsReleased == reply # 0 => disk = {}

FileEntries(es) == {i \in DOMAIN es : ~es[i].isDirectory}

\* no entry with a SQLite extension and none matching the name heuristics
NoDatabaseLike(es) ==
    \A i \in DOMAIN es : ~ExtMatch(es[i]) /\ ~NameMatch(es[i])

Least(S) == CHOOSE i \in S : \A j \in S : i <= j

ByExtension(es) == {i \in DOMAIN es : ExtMatch(es[i])}

ByName(es) == {i \in DOMAIN es : NameMatch(es[i])}

\* the file entries no other file entry exceeds in size
LargestFiles(es) ==
    {i \in FileEntries(es) : \A j \in FileEntries(es) : es[j].size <= es[i].size}

\* extractSqliteFromZip made its choice from an archive adm-zip could read
Selected == upload = "zip" /\ readable /\ ipc \notin {"idle", "extract"}

-----------------------------------------------------------------------------
\* GET /api/download/:filename

MaxSegments == 3

\* the decoded :filename parameter, split at its separators
Segments == {dotdot, artifact, uploads_backup}

Filenames == UNION {[1..n -> Segments] : n \in 1..MaxSegments}

\* the directories that exist: the root, the working directory, uploads/ and
\* its sibling
Dirs == {<<>>, <<app>>, <<app, uploads>>, <<app, uploads_backup>>}

\* path.join / path.resolve: append the segments to the directory, '..'
\* removing the last one (the root has no parent)
RECURSIVE Normalize(_, _)
Normalize(dir, segs) ==
    IF segs = <<>> THEN dir
    ELSE IF Head(segs) = dotdot
    THEN Normalize(IF dir = <<>> THEN dir ELSE SubSeq(dir, 1, Len(dir) - 1),
                   Tail(segs))
    ELSE Normalize(Append(dir, Head(segs)), Tail(segs))

\* the absolute path as a string: '/' before the tokens of every segment
RECURSIVE PathString(_)
PathString(p) ==
    IF p = <<>> THEN <<>>
    ELSE <<"/">> \o Head(p) \o PathString(Tail(p))

\* path.resolve(path.join('uploads', filename)), the process running in /app
resolvedPath(name) == Normalize(<<app, uploads>>, name)

uploadsPath == PathString(<<app, uploads>>)

\* resolvedPath.startsWith(uploadsPath)
SecurityCheck(name) == IsPrefix(uploadsPath, PathString(resolvedPath(name)))

notDownloadVars ==
    <<sessionVars, dumpVars, channelVars, intakeVars, statusVars,
      cleanupVars, statsVars,
      importVars>>

\* the handler up to the end of 'await fs.access(filePath)'
Request(r, name) ==
    /\ ~crashed /\ dl[r].st = "new"
    /\ IF ~SecurityCheck(name)
       THEN /\ dl' = [dl EXCEPT ![r] = [st |-> "done", name |-> name,
                                        target |-> resolvedPath(name),
                                        status |-> 403]]
            /\ UNCHANGED touched
       ELSE /\ touched' = touched \cup {resolvedPath(name)}
            /\ dl' = [dl EXCEPT ![r] =
                       IF resolvedPath(name) \in files \cup Dirs
                       THEN [st |-> "accessed", name |-> name,
                             target |-> resolvedPath(name), status |-> 0]
                       ELSE [st |-> "done", name |-> name,
                             target |-> resolvedPath(name), status |-> 404]]
    /\ UNCHANGED <<files, unlinkTimers, crashed>>
    /\ UNCHANGED notDownloadVars

\* createReadStream(filePath).pipe(res): the file is opened and read after
\* the handler returned; a missing file or a directory makes the stream emit
\* 'error', for which the handler registers no listener
Open(r) ==
    /\ ~crashed /\ dl[r].st = "accessed"
    /\ IF dl[r].target \in files
       THEN /\ dl' = [dl EXCEPT ![r].st = "streaming", ![r].status = 200]
            /\ UNCHANGED crashed
       ELSE /\ crashed' = TRUE
            /\ UNCHANGED dl
    /\ UNCHANGED <<files, unlinkTimers, touched>>
    /\ UNCHANGED notDownloadVars

\* 'end' of the file stream: the cleanup timer is armed
StreamEnd(r) ==
    /\ ~crashed /\ dl[r].st = "streaming"
    /\ dl' = [dl EXCEPT ![r].st = "done"]
    /\ unlinkTimers' = unlinkTimers \cup {r}
    /\ UNCHANGED <<files, crashed, touched>>
    /\ UNCHANGED notDownloadVars

\* the timer, 5 s after 'end': fs.unlink(filePath), an error is only logged
Cleanup(r) ==
    /\ ~crashed /\ r \in unlinkTimers
    /\ files' = files \ {dl[r].target}
    /\ unlinkTimers' = unlinkTimers \ {r}
    /\ UNCHANGED <<dl, crashed, touched>>
    /\ UNCHANGED notDownloadVars

NextDownload ==
    \/ \E r \in Requests, name \in Filenames : Request(r, name)
    \/ \E r \in Requests : Open(r)
    \/ \E r \in Requests : StreamEnd(r)
    \/ \E r \in Requests : Cleanup(r)

SpecDownload == Init /\ [][NextDownload]_vars

\* the resolved path lies inside the uploads directory
Inside(p) == Len(p) > 2 /\ SubSeq(p, 1, 2) = <<app, uploads>>

\* C22 as stated: for every requested filename, including ones with '..'
\* segments or that resolve to a sibling path sharing the directory's name
\* prefix, a file is accessed or streamed only if its resolved path lies
\* inside the uploads directory.
C22_OnlyInsideUploads == \A p \in touched : Inside(p)

\* every request made so far names the artifact itself
OnlyArtifactRequested ==
    \A r \in Requests :
        dl[r].st # "new" => dl[r].target = <<app, uploads, artifact>>

\* C23 as stated, its safety part: concurrent or repeated downloads of the
\* same artifact never cause an unhandled failure; a request for an artifact
\* that no longer exists is answered with not-found.
C23_RepeatedDownloadsAreSafe == OnlyArtifactRequested => ~crashed

-----------------------------------------------------------------------------
\* GET /api/status

MaxClock == 300

\* the clock advances in steps of one minute
ClockStep == 60

StuckAfter == 120

notStatusVars ==
    <<sessionVars, dumpVars, channelVars, intakeVars, downloadVars,
      cleanupVars, statsVars,
      importVars>>

\* the filter of the directory listing
IsRecoverySql(f) ==
    /\ f.prefix \in {"recovery_", "manual_recovery_"}
    /\ f.ext = ".sql"

\* sqlFiles: the recovery SQL files that exist
sqlFiles == {f \in OutputNames : IsRecoverySql(f) /\ uploadsDir[f] # Absent}

\* mtime of sqlFiles[0] after the descending sort by mtime
LatestMtime ==
    CHOOSE t \in {uploadsDir[f] : f \in sqlFiles} :
        \A f \in sqlFiles : uploadsDir[f] <= t

\* the answer for a latest file of the given age
StatusOf(ageSeconds) ==
    [status |-> 200, isActive |-> ageSeconds <= StuckAfter,
     isStuck |-> ageSeconds > StuckAfter,
     idleSeconds |-> ageSeconds, inFlight |-> recovering # {}]

\* the answer when no recovery SQL file exists
StatusNoFiles ==
    [status |-> 200, isActive |-> FALSE, isStuck |-> FALSE,
     idleSeconds |-> Absent, inFlight |-> recovering # {}]

StatusTick ==
    /\ wallClock + ClockStep <= MaxClock
    /\ wallClock' = wallClock + ClockStep
    /\ UNCHANGED <<uploadsDir, recovering, statusReply>>
    /\ UNCHANGED notStatusVars

\* a recovery or materialization in flight creates or appends to its output
OutputWritten(f) ==
    /\ uploadsDir' = [uploadsDir EXCEPT ![f] = wallClock]
    /\ recovering' = recovering \cup {f}
    /\ UNCHANGED <<wallClock, statusReply>>
    /\ UNCHANGED notStatusVars

\* the request that wrote f was answered; its outputs stay in uploads/
RecoveryEnds(f) ==
    /\ f \in recovering
    /\ recovering' = recovering \ {f}
    /\ UNCHANGED <<wallClock, uploadsDir, statusReply>>
    /\ UNCHANGED notStatusVars

\* the file was downloaded and unlinked, or removed by the old-file cleanup
OutputRemoved(f) ==
    /\ f \notin recovering /\ uploadsDir[f] # Absent
    /\ uploadsDir' = [uploadsDir EXCEPT ![f] = Absent]
    /\ UNCHANGED <<wallClock, recovering, statusReply>>
    /\ UNCHANGED notStatusVars

\* the handler of /api/status
StatusProbe ==
    /\ statusReply' = IF sqlFiles = {} THEN StatusNoFiles
                      ELSE StatusOf(wallClock - LatestMtime)
    /\ UNCHANGED <<wallClock, uploadsDir, recovering>>
    /\ UNCHANGED notStatusVars

NextStatus ==
    \/ StatusTick
    \/ \E f \in OutputNames : OutputWritten(f)
    \/ \E f \in OutputNames : RecoveryEnds(f)
    \/ \E f \in OutputNames : OutputRemoved(f)
    \/ StatusProbe

SpecStatus == Init /\ [][NextStatus]_vars

\* C26 as stated: the probe reports idle (isActive = false, isStuck = false)
\* when no recovery file exists or no recovery is running, active when the
\* latest file was modified at most 120 s ago, stalled when more than 120 s
\* ago; isActive and isStuck are never both true.
C26_ThreeStates ==
    statusReply.status = 200 =>
        /\ ~(statusReply.isActive /\ statusReply.isStuck)
        /\ IF statusReply.idleSeconds = Absent \/ ~statusReply.inFlight
           THEN ~statusReply.isActive /\ ~statusReply.isStuck
           ELSE IF statusReply.idleSeconds <= StuckAfter
           THEN statusReply.isActive
           ELSE statusReply.isStuck

-----------------------------------------------------------------------------
\* The uploads directory under concurrent sessions: cleanupOldRecoveryFiles
\* and the paths the handlers derive from Date.now()

MaxPeriods == 2

\* cleanupOldRecoveryFiles keeps the files modified in the last 5 minutes,
\* that is within one period
FiveMinutes == 1

\* the millisecond within the period at which Date.now() is read
Millis == {0, 1}

BaseNames == {"data"}

notCleanupVars ==
    <<sessionVars, dumpVars, channelVars, intakeVars, downloadVars,
      statusVars, statsVars,
      importVars>>

Path(prefix, timestamp, baseName, ext) ==
    [prefix |-> prefix, timestamp |-> timestamp, baseName |-> baseName,
     ext |-> ext]

\* the prefixes cleanupOldRecoveryFiles looks for
CleanupPrefixes ==
    {"recovery_", "recovered_", "manual_recovery_", "manual_recovered_",
     "extracted_"}

\* the directory after cleanupOldRecoveryFiles ran
AfterCleanup ==
    {f \in store :
        ~(f.path.prefix \in CleanupPrefixes /\ f.mtime < period - FiveMinutes)}

\* the input the recovery reads: the upload, or the file extracted from it
InputOf(zip, timestamp, baseName) ==
    IF zip THEN Path("extracted_", timestamp, baseName, ".db")
    ELSE Path("corrupt_", timestamp, baseName, ".db")

\* sqlOutputPath / outputPath of the two handlers
SqlOutputPath(ep, timestamp, baseName) ==
    Path(IF ep = "recover" THEN "recovery_" ELSE "manual_recovery_",
         timestamp, baseName, ".sql")

\* dbOutputPath of the two handlers
DbOutputPath(ep, timestamp, baseName) ==
    Path(IF ep = "recover" THEN "recovered_" ELSE "manual_recovered_",
         timestamp, baseName, ".db")

\* the file is created, or written again, now
Written(dir, p) ==
    {f \in dir : f.path # p} \cup {[path |-> p, mtime |-> period]}

CleanupTick ==
    /\ period < MaxPeriods
    /\ period' = period + 1
    /\ UNCHANGED <<store, fsess>>
    /\ UNCHANGED notCleanupVars

\* a request arrives: the old-file cleanup runs, then the handler fixes its
\* timestamp and its input file
Begin(s, ep, zip, ms, baseName) ==
    /\ fsess[s].st = "idle"
    /\ store' = Written(AfterCleanup, InputOf(zip, <<period, ms>>, baseName))
    /\ fsess' = [fsess EXCEPT ![s] =
                   [st |-> "recovering", endpoint |-> ep,
                    timestamp |-> <<period, ms>>, baseName |-> baseName,
                    held |-> {InputOf(zip, <<period, ms>>, baseName)}]]
    /\ UNCHANGED period
    /\ UNCHANGED notCleanupVars

\* a strategy of the session writes to its output script
WriteSql(s) ==
    /\ fsess[s].st = "recovering"
    /\ LET p == SqlOutputPath(fsess[s].endpoint, fsess[s].timestamp,
                              fsess[s].baseName)
       IN /\ store' = Written(store, p)
          /\ fsess' = [fsess EXCEPT ![s].held = @ \cup {p}]
    /\ UNCHANGED period
    /\ UNCHANGED notCleanupVars

\* createDatabaseFromSql of the session writes to its database
WriteDb(s) ==
    /\ fsess[s].st \in {"recovering", "materializing"}
    /\ SqlOutputPath(fsess[s].endpoint, fsess[s].timestamp, fsess[s].baseName)
           \in fsess[s].held
    /\ LET p == DbOutputPath(fsess[s].endpoint, fsess[s].timestamp,
                             fsess[s].baseName)
       IN /\ store' = Written(store, p)
          /\ fsess' = [fsess EXCEPT ![s].held = @ \cup {p},
                                    ![s].st = "materializing"]
    /\ UNCHANGED period
    /\ UNCHANGED notCleanupVars

\* the request is answered
Finish(s) ==
    /\ fsess[s].st \in {"recovering", "materializing"}
    /\ fsess' = [fsess EXCEPT ![s].st = "done", ![s].held = {}]
    /\ UNCHANGED <<period, store>>
    /\ UNCHANGED notCleanupVars

NextCleanup ==
    \/ CleanupTick
    \/ \E s \in Sessions, ep \in {"recover", "manual"}, zip \in BOOLEAN,
          ms \in Millis, b \in BaseNames : Begin(s, ep, zip, ms, b)
    \/ \E s \in Sessions : WriteSql(s)
    \/ \E s \in Sessions : WriteDb(s)
    \/ \E s \in Sessions : Finish(s)

SpecCleanup == Init /\ [][NextCleanup]_vars

InFlightSessions == {s \in Sessions : fsess[s].st \in {"recovering", "materializing"}}

\* every file a session in flight created and still uses exists
NoInFlightFileDeleted ==
    \A s \in InFlightSessions :
        \A p \in fsess[s].held : \E f \in store : f.path = p

\* two sessions in flight have different output paths
DistinctOutputPaths ==
    \A s, t \in InFlightSessions :
        s # t =>
            SqlOutputPath(fsess[s].endpoint, fsess[s].timestamp,
                          fsess[s].baseName)
            # SqlOutputPath(fsess[t].endpoint, fsess[t].timestamp,
                            fsess[t].baseName)

\* C27 as stated: the old-file cleanup run when one session starts never
\* deletes an input, extracted or output file of another session that is
\* still in flight, and two sessions running concurrently never write to the
\* same output script or database path.
C27_SessionsDoNotInterfere == NoInFlightFileDeleted /\ DistinctOutputPaths

-----------------------------------------------------------------------------
\* getRecoveryStats: the row count over the tables of the new database

MaxStatTables == 3

MaxRows == 2

notStatsVars ==
    <<sessionVars, dumpVars, channelVars, intakeVars, downloadVars,
      statusVars, cleanupVars,
      importVars>>

\* the tables the enumeration query lists, each with its number of rows
TableRows == UNION {[1..n -> 0..MaxRows] : n \in 0..MaxStatTables}

\* queryDatabase resolves with the parsed rows, or with null when sqlite3
\* fails to start, exits nonzero, prints nothing or prints no JSON
Null == -1

queryDatabase(ok, rows) == IF ok THEN rows ELSE Null

AddRowCountOrReset(total, rowCount) ==
    IF rowCount # Null THEN total + rowCount ELSE 0

\* if (rowCount && rowCount[0]) totalRows += rowCount[0].count || 0
AddRowCount(total, rowCount) ==
    IF rowCount # Null THEN total + rowCount ELSE total

\* the enumeration query returned: the loop starts, or there is nothing to
\* count (also when the enumeration itself gave null)
StatsEnumerated(rows) ==
    /\ statIdx = 0 /\ recordsRecovered = Absent
    /\ rowCounts' = rows
    /\ IF rows = <<>>
       THEN /\ recordsRecovered' = totalRows
            /\ UNCHANGED <<statIdx, countIssued>>
       ELSE /\ statIdx' = 1
            /\ countIssued' = {1}
            /\ UNCHANGED recordsRecovered
    /\ UNCHANGED <<totalRows, countOk>>
    /\ UNCHANGED notStatsVars

\* the count query of the current table returned; the loop goes on to the
\* next table, or the statistics are returned
CountReturns(ok) ==
    /\ statIdx \in DOMAIN rowCounts /\ recordsRecovered = Absent
    /\ totalRows' = AddRowCount(totalRows,
                                queryDatabase(ok, rowCounts[statIdx]))
    /\ countOk' = IF ok THEN countOk \cup {statIdx} ELSE countOk
    /\ statIdx' = statIdx + 1
    /\ IF statIdx < Len(rowCounts)
       THEN /\ countIssued' = countIssued \cup {statIdx + 1}
            /\ UNCHANGED recordsRecovered
       ELSE /\ recordsRecovered' = totalRows'
            /\ UNCHANGED countIssued
    /\ UNCHANGED rowCounts
    /\ UNCHANGED notStatsVars

NextStats ==
    \/ \E rows \in TableRows : StatsEnumerated(rows)
    \/ \E ok \in BOOLEAN : CountReturns(ok)

SpecStats == Init /\ [][NextStats]_vars

RECURSIVE SumOver(_, _)
SumOver(S, rows) ==
    IF S = {} THEN 0
    ELSE LET i == CHOOSE x \in S : TRUE
         IN rows[i] + SumOver(S \ {i}, rows)

\* C29: whichever count queries fail, the collector issues a count query for
\* every enumerated table and returns recordsRecovered equal to the sum of
\* the counts of the tables whose query succeeded.
C29_FailedCountsSkipped ==
    recordsRecovered # Absent =>
        /\ countIssued = DOMAIN rowCounts
        /\ recordsRecovered = SumOver(countOk, rowCounts)

\* the count of the first table failed, a later one succeeded and its rows
\* were reported
C29_Witness ==
    /\ recordsRecovered > 0
    /\ 1 \in DOMAIN rowCounts /\ 1 \notin countOk
    /\ rowCounts[1] > 0
    /\ countOk # {}

-----------------------------------------------------------------------------
\* The primary .recover process that exits with status 0

\* the primary process was spawned, returned and had exited with status 0
PrimaryExitedZero ==
    /\ Returned("primary")
    /\ stratResult["primary"].error
           \notin {"exit status", "Failed to execute sqlite3"}

\* a process of a fallback strategy was started
FallbackStarted == \E i \in DOMAIN spawnLog : spawnLog[i] \in FallbackCmds

\* the scripts the primary step writes: the output of .recover, or the
\* placeholder comment
PrimaryScripts ==
    {<<Section(k, 0, "", 0)>> : k \in {"recover", "nodata"}}

\* C39 as stated: a primary process that exits with status 0 ends the chain
\* at step 1, with or without output: the script is written (a placeholder
\* comment when there was no output), success is returned and no fallback is
\* attempted; fallbacks are attempted only on a nonzero exit status.
C39_ExitZeroEndsChain ==
    /\ PrimaryExitedZero =>
           /\ Succeeded("primary") /\ result.success
           /\ outFile \in PrimaryScripts
           /\ ~FallbackStarted
    /\ endpoint = "recover" /\ FallbackStarted =>
           Failed("primary")

\* C39 amended: a primary process that exits with status 0 ends the chain at
\* step 1 and no fallback is attempted; success is returned with the script
\* written unless the write is rejected, which returns failure; fallbacks
\* are attempted only after a nonzero exit status of the primary process or
\* when the probe found no .recover support and the primary was skipped.
C39_ExitZeroEndsChainUnlessWriteFails ==
    /\ PrimaryExitedZero =>
           /\ ~FallbackStarted
           /\ cpc = "done"
           /\ \/ /\ Succeeded("primary") /\ result.success
                 /\ outFile \in PrimaryScripts
              \/ /\ stratResult["primary"].error
                        = "Failed to write recovery file"
                 /\ ~result.success
    /\ endpoint = "recover" /\ FallbackStarted =>
           Failed("primary") \/ SkippedPrimary

\* the primary process exited with status 0 without output: success, the
\* placeholder script, and nothing but the probe and the primary was spawned
C39_Witness ==
    /\ Succeeded("primary") /\ result.success
    /\ outFile = <<Section("nodata", 0, "", 0)>>
    /\ spawnLog = <<"version", "help", "primary">>


-----------------------------------------------------------------------------
\* C35

\* the table-by-table strategy has written its header and has not returned
InTableLoop == cpc = "dump"

\* C35: within the table-by-table strategy the output file is append-only
\* once the header is written: every step taken before the strategy returns
\* leaves the file's earlier content as a prefix of its content, so no table
\* section or failure comment already written is removed or altered; the
\* header stays the first section.
C35_AppendOnly ==
    [][InTableLoop =>
           /\ IsPrefix(outFile, outFile')
           /\ outFile'[1] = Section("header", 0, "", 0)]_vars

\* the strategy returned after appending a failure comment, a table section
\* and the footer behind the header
C35_Witness ==
    /\ Returned("table")
    /\ Len(outFile) = 4
    /\ outFile[1].kind = "header"
    /\ outFile[2].kind = "failed"
    /\ outFile[3].kind = "table"
    /\ outFile[4].kind = "footer"


-----------------------------------------------------------------------------
\* Progress of the database phase (specification SpecImport)

notImportVars ==
    <<sessionVars, dumpVars, channelVars, intakeVars, downloadVars,
      statusVars, cleanupVars, statsVars>>

\* progressPercent of createDatabaseFromSql's 'data' handler
ImportPercent(read, total) ==
    IF total > 0 THEN Min(95, 70 + Round(read * 25, total)) ELSE 80

\* the handler of ep has its script: it publishes the database phase and
\* calls createDatabaseFromSql, whose fs.stat gives total
ImportBegin(ep, total) ==
    /\ impState = "idle"
    /\ impEndpoint' = ep
    /\ impState' = "running"
    /\ totalSize' = total
    /\ bytesRead' = 0
    /\ sent' = <<DatabaseProgress(ep)>>
    /\ UNCHANGED notImportVars

\* 'data' of the script's read stream: a chunk of k units.  elapsed: more
\* than five seconds have passed since lastLog.
ImportData(k, elapsed) ==
    /\ impState = "running"
    /\ bytesRead + k <= ScriptSize
    /\ bytesRead' = bytesRead + k
    /\ sent' = IF elapsed
               THEN Append(sent, ImportPercent(bytesRead + k, totalSize))
               ELSE sent
    /\ UNCHANGED <<impEndpoint, impState, totalSize>>
    /\ UNCHANGED notImportVars

\* 'close' of the import process; /api/recover goes on to the statistics
ImportEnds(code) ==
    /\ impState = "running"
    /\ impState' = "closed"
    /\ sent' = IF ImportSucceeded(code) /\ impEndpoint = "recover"
               THEN Append(sent, 95)
               ELSE sent
    /\ UNCHANGED <<impEndpoint, bytesRead, totalSize>>
    /\ UNCHANGED notImportVars

NextImport ==
    \/ \E ep \in {"recover", "manual"}, total \in {0, ScriptSize} :
           ImportBegin(ep, total)
    \/ \E k \in 1..ScriptSize, elapsed \in BOOLEAN : ImportData(k, elapsed)
    \/ \E code \in {0, 1} : ImportEnds(code)

SpecImport == Init /\ [][NextImport]_vars

\* C38 as stated: the progress value published within one session never
\* decreases, for /api/recover and for /api/manual-recovery alike, and every
\* published value lies within 0..100.
C38_ProgressMonotone ==
    \A i \in 1..Len(sent) :
        /\ sent[i] \in 0..100
        /\ i > 1 => sent[i - 1] <= sent[i]

\* a manual recovery published 75 on entering the database phase and a
\* smaller value from the import's first chunk afterwards
C38_ManualGoesBack ==
    /\ impEndpoint = "manual"
    /\ Len(sent) >= 2
    /\ sent[1] = 75
    /\ sent[2] < 75

\* every value is within 0..100, and the database phase of /api/recover
\* never publishes a smaller value after a larger one
C38_RecoverMonotone ==
    /\ \A i \in 1..Len(sent) : sent[i] \in 0..100
    /\ impEndpoint = "recover" =>
           \A i \in 2..Len(sent) : sent[i - 1] <= sent[i]


-----------------------------------------------------------------------------
\* Outcome of the streaming dump

\* the dump runs: no outcome yet, the process has not been declared complete
DumpRunning == dumpResult.state = "pending" /\ ~processComplete

C36_ResultDelivered ==
    /\ sqlite3.st = "closed"
    /\ sqlite3.signals = <<>>
    /\ outputStream.st = "finished"
    => DumpResolved

\* C37 as stated: one run delivers one outcome and kills at most once (the
\* escalation apart), and once the outcome is delivered none of the 20 s
\* timer, the watchdog and the heartbeat remains armed.
C37_OneOutcomeNoTimerLeft ==
    /\ sqlite3.signals \in
           {<<>>, <<"SIGKILL">>, <<"SIGTERM">>, <<"SIGTERM", "SIGKILL">>}
    /\ DumpResolved =>
           /\ timers.zero = Off
           /\ timers.watchdog = Off
           /\ timers.heartbeat = Off


-----------------------------------------------------------------------------
\* Ceiling, stall detection and progress cadence of the streaming dump

\* the last tick the watchdog handled, once it has handled one
LastWatchdogTick == timers.watchdog - WatchdogPeriod

\* the last tick the heartbeat handled, once it has handled one
LastHeartbeatTick == timers.heartbeat - HeartbeatPeriod

QuietSinceJump == bytesWritten > 0 /\ bytesWritten = lastSignificantSize

StallKill ==
    /\ dumpResult.state = "pending"
    /\ dumpResult'.state = "resolved"
    /\ dumpResult'.error = Stalled

C34_ProgressEveryTenSeconds ==
    DumpRunning /\ sqlite3.st = "alive" =>
        now - lastProgressUpdate <= HeartbeatPeriod

====
